---- MODULE Spec2Model ----
(***************************************************************************)
(* State-machine model of the cross-chain bridging core of tradehub-api-js *)
(* (src/src/lib/tradehub/sdk/TradeHubSDK.ts): the ETHClient deposit / lock *)
(* operations and the TokenClient registry.                                *)
(*                                                                         *)
(* Every `await` of the source is a point where other work may run, so an  *)
(* asynchronous method is a sequence of steps: one step issues a remote    *)
(* call (it is appended to `calls`), the next consumes its answer or its   *)
(* failure.  The synchronous code between two awaits is one atomic step.   *)
(***************************************************************************)
EXTENDS Integers, Sequences, FiniteSets, TLC

VARIABLES
  blockchain,   \* ETHClient.blockchain (readonly, set by the constructor)
  deployed,     \* chain state: addresses that hold contract code
  frame,        \* locals of the ETHClient method that is running
  calls,        \* remote calls issued by the running method, in order
  result,       \* what the finished method handed to its caller
  submitDeployed, \* history: was depositAddress deployed when the POST left
  tokens,       \* TokenClient.tokens
  poolTokens,   \* TokenClient.poolTokens
  symbols,      \* TokenClient.symbols
  wrapperMap,   \* TokenClient.wrapperMap
  wrapperOrder, \* the keys of wrapperMap in property order (insertion order)
  usdValues,    \* TokenClient.usdValues
  aliasTable,   \* the CommonAssetName table this build was compiled with
  reg,          \* TokenClient reload calls in flight
  hist,         \* history of the registry reloads that were applied
  sdk           \* the TradeHubSDK instance: its fields and its initialize/connect call

ethVars == <<blockchain, deployed, frame, calls, result, submitDeployed>>
regVars == <<tokens, poolTokens, symbols, wrapperMap, wrapperOrder, usdValues,
            aliasTable, reg, hist, sdk>>
vars == <<blockchain, deployed, frame, calls, result, submitDeployed,
          tokens, poolTokens, symbols, wrapperMap, wrapperOrder, usdValues,
          aliasTable, reg, hist, sdk>>

(***************************************************************************)
(* Bounds of the model.                                                    *)
(***************************************************************************)
MaxBalance == 4     \* external_balance and lock amounts range over 0..MaxBalance
MaxFee == 2         \* fee components range over 0..MaxFee
MaxNonce == 1       \* nonces range over 0..MaxNonce

(***************************************************************************)
(* Program constants.                                                      *)
(***************************************************************************)
FEE_MULTIPLIER == 2
MinGasLimit == 150000

SUPPORTED_BLOCKCHAINS == {"bsc", "eth"}
ZeroAssetId == "0000000000000000000000000000000000000000"
Erc20AssetId == "aaaaaaaaaaaaaaaaaaaaaaaaaaaaaaaaaaaaaaaa"
Absent == -1        \* a JSON field that is missing (or an empty string)

(***************************************************************************)
(* Strings whose characters matter (denoms, symbols) are sequences of      *)
(* one-character strings.                                                  *)
(***************************************************************************)
d_eth == <<"e", "t", "h">>
d_usdc == <<"u", "s", "d", "c">>

(***************************************************************************)
(* ETHClient: inputs.                                                      *)
(***************************************************************************)
Amounts == 0..MaxBalance
Fees == 0..MaxFee
Nonces == 0..MaxNonce
GasLimits == {MinGasLimit - 1, MinGasLimit, MinGasLimit + 1}
TokenChains == {"bsc", "eth"}
EthAddresses == {"0xowner1", "0xowner2"}
SwthAddresses == {"swth1user"}
TransportErrors == {"ECONNRESET", "ETIMEDOUT"}
FeeAddress == "feeaddress"

\* RestModels.Token values handed to the client; external_balance is the
\* annotation getExternalBalances puts on a token.
EthTokens ==
  { [denom |-> sh[1], asset_id |-> sh[2], blockchain |-> c,
     originator |-> "swth1orig", external_balance |-> b] :
      sh \in {<<d_eth, ZeroAssetId>>, <<d_usdc, Erc20AssetId>>},
      c \in TokenChains, b \in Amounts }

LockTokens == { t \in EthTokens : t.external_balance = 0 }

\* RestModels.FeeResult.details: each fee is a decimal string or is missing.
FeeInfos == [deposit : Fees \cup {Absent}, createWallet : Fees \cup {Absent}]

\* lockProxy.getWalletAddress(owner, swthAddress, bytecodeHash): the address the
\* custody contract derives; one address per (owner, platform address) pair.
WalletAddress(ownerEthAddress, swthAddress) ==
  "wallet:" \o ownerEthAddress \o ":" \o swthAddress

WalletAddresses == { WalletAddress(o, s) : o \in EthAddresses, s \in SwthAddresses }

NoToken ==
  [denom |-> <<>>, asset_id |-> "", blockchain |-> "", originator |-> "",
   external_balance |-> 0]

NoBody ==
  [OwnerAddress |-> "", SwthAddress |-> "", AssetHash |-> "", TargetProxyHash |-> "",
   ToAssetHash |-> <<>>, Amount |-> <<>>, FeeAmount |-> <<>>, FeeAddress |-> "",
   Nonce |-> <<>>, V |-> <<>>, R |-> <<>>, S |-> <<>>]

\* an optional denom array left out
NoWhitelist == [given |-> FALSE, denoms |-> {}]

IdleFrame ==
  [op |-> "none", pc |-> "idle", token |-> NoToken, amount |-> 0, gasLimit |-> 0,
   swthAddress |-> "", ethAddress |-> "", depositAddress |-> "",
   feeInfo |-> [deposit |-> Absent, createWallet |-> Absent],
   walletContractDeployed |-> FALSE, feeAmount |-> 0, nonce |-> 0,
   message |-> <<>>, body |-> NoBody,
   whitelistDenoms |-> NoWhitelist, tokenList |-> <<>>, tokens |-> <<>>]

NoResult == [kind |-> "none", tag |-> "", err |-> "", val |-> 0]
Thrown(e) == [kind |-> "throw", tag |-> "", err |-> e, val |-> 0]
Returned(tag, v) == [kind |-> "return", tag |-> tag, err |-> "", val |-> v]

Call(op, arg) == [op |-> op, arg |-> arg, out |-> "pending"]

\* The last call of the log, answered with `out`.
Answered(log, out) == [log EXCEPT ![Len(log)].out = out]

CallsOf(log, op) == { i \in 1..Len(log) : log[i].op = op }

(***************************************************************************)
(* ETHClient: pure helpers.                                                *)
(***************************************************************************)
appendHexPrefix(s) == "0x" \o s

\* BigNumber.prototype.toString and Number.prototype.toString: the decimal digits of a number
DigitChars == <<"0", "1", "2", "3", "4", "5", "6", "7", "8", "9">>
RECURSIVE toString(_)
toString(n) ==
  IF n < 0 THEN <<"-">> \o toString(0 - n)
  ELSE IF n < 10
  THEN <<DigitChars[n + 1]>>
  ELSE toString(n \div 10) \o <<DigitChars[(n % 10) + 1]>>

\* ethers.utils.hexlify(ethers.utils.toUtf8Bytes(denom))
hexlifyUtf8(denom) == <<"0x-utf8">> \o denom

\* ethers.utils.hexlify(SWTHAddress.getAddressBytes(bech32, network))
hexlifyAddress(bech32) == "0x" \o ("bytes:" \o bech32)

getTargetProxyHash(token) == "bytes:" \o token.originator

\* ethers.utils.solidityKeccak256(types, values): a hash is modelled by its preimage.
solidityKeccak256(values) == <<"keccak256", values>>

\* ethers.utils.splitSignature
splitSignature(signature) ==
  [v |-> <<"v", signature>>, r |-> <<"r", signature>>, s |-> <<"s", signature>>]

(***************************************************************************)
(* ETHClient.lockDeposit                                                   *)
(***************************************************************************)
\* the guard written with the wrong comparison
GasLimitTooLow_OffByOne(gasLimit) == gasLimit <= MinGasLimit

\* if (gasLimit.lt(150000)) throw
GasLimitTooLow(gasLimit) == gasLimit < MinGasLimit

\* the value attached whatever the token
LockTxValue_Always(token, amount) == amount

\* the `value` override of the lock transaction
LockTxValue(token, amount) ==
  IF token.asset_id = ZeroAssetId THEN amount ELSE 0

\* the arguments and overrides of lockProxy.lock(...)
LockTx(f, nonce) ==
  [assetHash |-> appendHexPrefix(f.token.asset_id),
   targetProxyHash |-> appendHexPrefix(getTargetProxyHash(f.token)),
   toAddress |-> hexlifyAddress(f.swthAddress),
   toAssetHash |-> hexlifyUtf8(f.token.denom),
   feeAddress |-> appendHexPrefix(FeeAddress),
   values |-> <<f.amount, 0, f.amount>>,
   nonce |-> nonce,
   value |-> LockTxValue(f.token, f.amount),
   gasLimit |-> f.gasLimit]

\* lockDeposit(params), up to its first await
LockDeposit(token, amount, gasLimit, swthAddress, ethAddress) ==
  /\ frame.pc = "idle"
  /\ UNCHANGED <<blockchain, deployed, submitDeployed>>
  /\ UNCHANGED regVars
  /\ LET f == [IdleFrame EXCEPT !.op = "lockDeposit", !.token = token,
                 !.amount = amount, !.gasLimit = gasLimit,
                 !.swthAddress = swthAddress, !.ethAddress = ethAddress]
     IN IF GasLimitTooLow(gasLimit)
        THEN /\ frame' = [f EXCEPT !.pc = "done"]
             /\ calls' = <<>>
             /\ result' = Thrown("Minimum gas required: 150,000")
        ELSE /\ frame' = [f EXCEPT !.pc = "awaitTransactionCount"]
             /\ calls' = <<Call("getTransactionCount", ethAddress)>>
             /\ result' = NoResult

\* rpcProvider.getTransactionCount answered: the lock transaction is submitted
LockSubmit(nonce) ==
  /\ frame.op = "lockDeposit"
  /\ frame.pc = "awaitTransactionCount"
  /\ frame' = [frame EXCEPT !.pc = "awaitLock", !.nonce = nonce]
  /\ calls' = Append(Answered(calls, "ok"), Call("lock", LockTx(frame, nonce)))
  /\ UNCHANGED <<blockchain, deployed, result, submitDeployed>>
  /\ UNCHANGED regVars

\* the lock transaction was accepted: return lockResultTx
LockReturn ==
  /\ frame.op = "lockDeposit"
  /\ frame.pc = "awaitLock"
  /\ frame' = [frame EXCEPT !.pc = "done"]
  /\ calls' = Answered(calls, "ok")
  /\ result' = Returned("tx", frame.nonce)
  /\ UNCHANGED <<blockchain, deployed, submitDeployed>>
  /\ UNCHANGED regVars

(***************************************************************************)
(* ETHClient.approveERC20                                                  *)
(***************************************************************************)
\* ethers.constants.MaxUint256
MaxUint256 == "0xffffffffffffffffffffffffffffffffffffffffffffffffffffffffffffffff"

\* EthNetworkConfig.LockProxyAddr of the network's configuration, per chain
\* (addresses are written character by character and shortened: their case and
\* their prefix are what the code works on)
LockProxyAddr == [eth |-> <<"0", "x", "E", "1", "a">>, bsc |-> <<"0", "x", "B", "5", "c">>]

\* getLockProxyAddress()
getLockProxyAddress == LockProxyAddr[blockchain]

\* Token.lock_proxy_hash values: the configured lock proxies, unprefixed, and
\* a lock proxy the configuration does not name
LockProxyHashes == { <<"e", "1", "a">>, <<"b", "5", "c">>, <<"0", "1", "d">> }

\* RestModels.Token values handed to approveERC20
ApproveTokens ==
  { [denom |-> d_usdc, asset_id |-> Erc20AssetId, blockchain |-> c,
     originator |-> "swth1orig", external_balance |-> 0, lock_proxy_hash |-> h] :
      c \in TokenChains, h \in LockProxyHashes }

\* the configured lock proxy taken for the spender
ApproveTx_SpenderConfigured(f, nonce) ==
  [contract |-> f.token.asset_id,
   spender |-> SubSeq(getLockProxyAddress, 3, Len(getLockProxyAddress)),
   amount |-> MaxUint256,
   nonce |-> nonce,
   gasLimit |-> f.gasLimit]

\* the contract, the arguments and the overrides of contract.approve(...); the
\* gasPrice override is params.gasPriceGwei scaled and is left out
ApproveTx(f, nonce) ==
  [contract |-> f.token.asset_id,
   spender |-> f.token.lock_proxy_hash,
   amount |-> MaxUint256,
   nonce |-> nonce,
   gasLimit |-> f.gasLimit]

\* approveERC20(params), up to `await rpcProvider.getTransactionCount(ethAddress)`
ApproveERC20(token, gasLimit, ethAddress) ==
  /\ frame.pc = "idle"
  /\ frame' = [IdleFrame EXCEPT !.op = "approveERC20", !.token = token,
                                !.gasLimit = gasLimit, !.ethAddress = ethAddress,
                                !.pc = "awaitTransactionCount"]
  /\ calls' = <<Call("getTransactionCount", ethAddress)>>
  /\ result' = NoResult
  /\ UNCHANGED <<blockchain, deployed, submitDeployed>>
  /\ UNCHANGED regVars

\* rpcProvider.getTransactionCount answered: the approve transaction is submitted
ApproveSubmit(nonce) ==
  /\ frame.op = "approveERC20"
  /\ frame.pc = "awaitTransactionCount"
  /\ frame' = [frame EXCEPT !.pc = "awaitApprove", !.nonce = nonce]
  /\ calls' = Append(Answered(calls, "ok"), Call("approve", ApproveTx(frame, nonce)))
  /\ UNCHANGED <<blockchain, deployed, result, submitDeployed>>
  /\ UNCHANGED regVars

\* the approve transaction was accepted: return approveResultTx
ApproveReturn ==
  /\ frame.op = "approveERC20"
  /\ frame.pc = "awaitApprove"
  /\ frame' = [frame EXCEPT !.pc = "done"]
  /\ calls' = Answered(calls, "ok")
  /\ result' = Returned("tx", frame.nonce)
  /\ UNCHANGED <<blockchain, deployed, submitDeployed>>
  /\ UNCHANGED regVars

(***************************************************************************)
(* ETHClient.getDepositFeeAmount / getFeeInfo / isContract                 *)
(***************************************************************************)
\* the chain test left out
UnsupportedToken_NoChainTest(feeInfo, token, chain) == feeInfo.deposit = Absent

\* the two `throw new Error("unsupported token")` tests, made on the fee answer
UnsupportedToken(feeInfo, token, chain) ==
  \/ feeInfo.deposit = Absent
  \/ token.blockchain # chain

\* the wallet-creation fee added for a deployed wallet, not for a missing one
DepositFeeAmount_Inverted(feeInfo, walletContractDeployed) ==
  IF walletContractDeployed
  THEN feeInfo.deposit + feeInfo.createWallet
  ELSE feeInfo.deposit

\* feeAmount after the isContract answer
DepositFeeAmount(feeInfo, walletContractDeployed) ==
  IF walletContractDeployed
  THEN feeInfo.deposit
  ELSE feeInfo.deposit + feeInfo.createWallet

\* the wallet-creation fee read before the isContract answer is looked at
CreateWalletMissing_Eager(feeInfo, walletContractDeployed) ==
  feeInfo.createWallet = Absent

\* reading feeInfo.details.createWallet.fee when it is missing throws
CreateWalletMissing(feeInfo, walletContractDeployed) ==
  ~walletContractDeployed /\ feeInfo.createWallet = Absent

\* the owner's own address probed in place of the derived wallet address
ProbeAddress_Owner(f) ==
  IF f.op = "sendDeposit" THEN f.ethAddress ELSE f.depositAddress

\* the address getDepositFeeAmount is asked to probe
ProbeAddress(f) == f.depositAddress

\* getDepositFeeAmount(token, depositAddress) called directly, up to the fetch in getFeeInfo
GetDepositFeeAmount(token, depositAddress) ==
  /\ frame.pc = "idle"
  /\ frame' = [IdleFrame EXCEPT !.op = "getDepositFeeAmount", !.pc = "awaitFeeInfo",
                 !.token = token, !.depositAddress = depositAddress]
  /\ calls' = <<Call("getFeeInfo", token.denom)>>
  /\ result' = NoResult
  /\ UNCHANGED <<blockchain, deployed, submitDeployed>>
  /\ UNCHANGED regVars

\* the fee service answered: the two checks, then the call of isContract
FeeInfoReturn(feeInfo) ==
  /\ frame.pc = "awaitFeeInfo"
  /\ IF UnsupportedToken(feeInfo, frame.token, blockchain)
     THEN /\ frame' = [frame EXCEPT !.pc = "done", !.feeInfo = feeInfo]
          /\ calls' = Answered(calls, "ok")
          /\ result' = Thrown("unsupported token")
     ELSE /\ frame' = [frame EXCEPT !.pc = "awaitCode", !.feeInfo = feeInfo,
                         !.feeAmount = feeInfo.deposit]
          /\ calls' = Append(Answered(calls, "ok"), Call("getCode", ProbeAddress(frame)))
          /\ result' = NoResult
  /\ UNCHANGED <<blockchain, deployed, submitDeployed>>
  /\ UNCHANGED regVars

(***************************************************************************)
(* ETHClient.getDepositContractAddress / sendDeposit                       *)
(***************************************************************************)
\* the balance compared with the fee itself, the multiplier forgotten
InsufficientBalance_NoMultiplier(amount, feeAmount) == amount < feeAmount

\* if (amount.lt(feeAmount.mul(FEE_MULTIPLIER))) return "insufficient balance"
InsufficientBalance(amount, feeAmount) == amount < feeAmount * FEE_MULTIPLIER

\* the values hashed into the message handed to getSignatureCallback
SendDepositMessage(f, feeAmount, nonce) ==
  solidityKeccak256(<<"sendTokens",
                      appendHexPrefix(f.token.asset_id),
                      appendHexPrefix(getTargetProxyHash(f.token)),
                      hexlifyUtf8(f.token.denom),
                      appendHexPrefix(FeeAddress),
                      f.token.external_balance, feeAmount, nonce>>)

\* the amount net of the fee put in the body
SendDepositBody_NetAmount(f, address, signature) ==
  LET rsv == splitSignature(signature)
  IN [OwnerAddress |-> address,
      SwthAddress |-> hexlifyAddress(f.swthAddress),
      AssetHash |-> appendHexPrefix(f.token.asset_id),
      TargetProxyHash |-> appendHexPrefix(getTargetProxyHash(f.token)),
      ToAssetHash |-> hexlifyUtf8(f.token.denom),
      Amount |-> toString(f.amount - f.feeAmount),
      FeeAmount |-> toString(f.feeAmount),
      FeeAddress |-> appendHexPrefix(FeeAddress),
      Nonce |-> toString(f.nonce),
      V |-> rsv.v, R |-> rsv.r, S |-> rsv.s]

\* the JSON body POSTed to the payer
SendDepositBody(f, address, signature) ==
  LET rsv == splitSignature(signature)
  IN [OwnerAddress |-> address,
      SwthAddress |-> hexlifyAddress(f.swthAddress),
      AssetHash |-> appendHexPrefix(f.token.asset_id),
      TargetProxyHash |-> appendHexPrefix(getTargetProxyHash(f.token)),
      ToAssetHash |-> hexlifyUtf8(f.token.denom),
      Amount |-> toString(f.amount),
      FeeAmount |-> toString(f.feeAmount),
      FeeAddress |-> appendHexPrefix(FeeAddress),
      Nonce |-> toString(f.nonce),
      V |-> rsv.v, R |-> rsv.r, S |-> rsv.s]

\* sendDeposit(token, swthAddress, ethAddress, cb), up to the await in
\* getDepositContractAddress
SendDeposit(token, swthAddress, ethAddress) ==
  /\ frame.pc = "idle"
  /\ frame' = [IdleFrame EXCEPT !.op = "sendDeposit", !.pc = "awaitWalletAddress",
                 !.token = token, !.swthAddress = swthAddress,
                 !.ethAddress = ethAddress]
  /\ calls' = <<Call("getWalletAddress", <<ethAddress, swthAddress>>)>>
  /\ result' = NoResult
  /\ UNCHANGED <<blockchain, deployed, submitDeployed>>
  /\ UNCHANGED regVars

\* the custody contract answered with the wallet address: getDepositFeeAmount
\* starts and getFeeInfo issues its fetch
WalletAddressReturn ==
  /\ frame.pc = "awaitWalletAddress"
  /\ frame' = [frame EXCEPT !.pc = "awaitFeeInfo",
                 !.depositAddress = WalletAddress(calls[Len(calls)].arg[1],
                                                  calls[Len(calls)].arg[2])]
  /\ calls' = Append(Answered(calls, "ok"), Call("getFeeInfo", frame.token.denom))
  /\ UNCHANGED <<blockchain, deployed, result, submitDeployed>>
  /\ UNCHANGED regVars

\* provider.getCode answered: getDepositFeeAmount returns; for sendDeposit the
\* balance test, the message and the call of getSignatureCallback follow
CodeReturn(nonce) ==
  /\ frame.pc = "awaitCode"
  /\ UNCHANGED <<blockchain, deployed, submitDeployed>>
  /\ UNCHANGED regVars
  /\ LET walletContractDeployed == calls[Len(calls)].arg \in deployed
         feeAmount == DepositFeeAmount(frame.feeInfo, walletContractDeployed)
         amount == frame.token.external_balance
         f == [frame EXCEPT !.walletContractDeployed = walletContractDeployed]
     IN IF CreateWalletMissing(frame.feeInfo, walletContractDeployed)
        THEN /\ frame' = [f EXCEPT !.pc = "done"]
             /\ calls' = Answered(calls, "ok")
             /\ result' = Thrown("TypeError: createWallet is undefined")
        ELSE IF frame.op = "getDepositFeeAmount"
        THEN /\ frame' = [f EXCEPT !.pc = "done", !.feeAmount = feeAmount]
             /\ calls' = Answered(calls, "ok")
             /\ result' = Returned("fee", feeAmount)
        ELSE IF InsufficientBalance(amount, feeAmount)
        THEN /\ frame' = [f EXCEPT !.pc = "done", !.feeAmount = feeAmount,
                            !.amount = amount]
             /\ calls' = Answered(calls, "ok")
             /\ result' = Returned("insufficient balance", 0)
        ELSE /\ frame' = [f EXCEPT !.pc = "awaitSign", !.feeAmount = feeAmount,
                            !.amount = amount, !.nonce = nonce,
                            !.message = SendDepositMessage(frame, feeAmount, nonce)]
             /\ calls' = Append(Answered(calls, "ok"),
                                Call("sign", SendDepositMessage(frame, feeAmount, nonce)))
             /\ result' = NoResult

\* getSignatureCallback answered: the signature is split, the body built and POSTed
SignReturn(address, wellFormed) ==
  /\ frame.pc = "awaitSign"
  /\ UNCHANGED <<blockchain, deployed>>
  /\ UNCHANGED regVars
  /\ IF wellFormed
     THEN LET body == SendDepositBody(frame, address, <<"sig", address, calls[Len(calls)].arg>>)
          IN /\ frame' = [frame EXCEPT !.pc = "awaitPost", !.body = body]
             /\ calls' = Append(Answered(calls, "ok"), Call("postDeposit", body))
             /\ result' = NoResult
             /\ submitDeployed' = (frame.depositAddress \in deployed)
     ELSE /\ frame' = [frame EXCEPT !.pc = "done"]
          /\ calls' = Answered(calls, "ok")
          /\ result' = Thrown("invalid signature")
          /\ UNCHANGED submitDeployed

\* the payer answered: return result
PostReturn ==
  /\ frame.pc = "awaitPost"
  /\ frame' = [frame EXCEPT !.pc = "done"]
  /\ calls' = Answered(calls, "ok")
  /\ result' = Returned("response", 0)
  /\ UNCHANGED <<blockchain, deployed, submitDeployed>>
  /\ UNCHANGED regVars

(***************************************************************************)
(* Rejected awaits and the chain.                                          *)
(***************************************************************************)
AwaitingPcs ==
  {"awaitTransactionCount", "awaitLock", "awaitWalletAddress", "awaitFeeInfo",
   "awaitCode", "awaitSign", "awaitPost", "awaitApprove", "awaitGetTokens",
   "awaitGetBalances"}

\* the rejection caught and rethrown as another error
Propagate_Wrapped(e) == Thrown("deposit failed")

\* no method of ETHClient catches: a rejected await rejects the method with the same error
Propagate(e) == Thrown(e)

\* the call awaited (an RPC, a fetch or the sign callback) is rejected with e
AwaitRejected(e) ==
  /\ frame.pc \in AwaitingPcs
  /\ frame' = [frame EXCEPT !.pc = "done"]
  /\ calls' = Answered(calls, e)
  /\ result' = Propagate(e)
  /\ UNCHANGED <<blockchain, deployed, submitDeployed>>
  /\ UNCHANGED regVars

\* the finished method's promise is settled: its caller has the result and the
\* client is free for the next call
Settle ==
  /\ frame.pc = "done"
  /\ frame' = IdleFrame
  /\ calls' = <<>>
  /\ result' = NoResult
  /\ UNCHANGED <<blockchain, deployed, submitDeployed>>
  /\ UNCHANGED regVars

\* somebody (the relayer) deploys the wallet contract at a deposit address
DeployWallet(a) ==
  /\ a \notin deployed
  /\ deployed' = deployed \cup {a}
  /\ UNCHANGED <<blockchain, frame, calls, result, submitDeployed>>
  /\ UNCHANGED regVars

(***************************************************************************)
(* TokenClient: strings, the pool-token pattern and the alias table.       *)
(***************************************************************************)
d_eth1 == <<"e", "t", "h", "1">>
d_pool == <<"e", "t", "h", "-", "5", "-", "u", "s", "d", "c", "-", "5", "-", "l", "p", "1">>
s_ETH == <<"E", "T", "H">>
s_WETH == <<"W", "E", "T", "H">>
s_USDC == <<"U", "S", "D", "C">>
s_LP == <<"L", "P">>
s_SWTHB == <<"S", "W", "T", "H", "B">>
s_SWTH == <<"S", "W", "T", "H">>
s_NNEO == <<"N", "N", "E", "O">>
s_nNEO == <<"n", "N", "E", "O">>
n_Ether == <<"E", "t", "h", "e", "r">>
n_Wrapped == <<"W", "r", "a", "p", "p", "e", "d">>
n_Old == <<"O", "l", "d">>
n_Coin == <<"C", "o", "i", "n">>
n_Pool == <<"P", "o", "o", "l">>

LowerCase ==
  {"a", "b", "c", "d", "e", "f", "g", "h", "i", "j", "k", "l", "m",
   "n", "o", "p", "q", "r", "s", "t", "u", "v", "w", "x", "y", "z"}
UpperCase ==
  {"A", "B", "C", "D", "E", "F", "G", "H", "I", "J", "K", "L", "M",
   "N", "O", "P", "Q", "R", "S", "T", "U", "V", "W", "X", "Y", "Z"}
Digits == {"0", "1", "2", "3", "4", "5", "6", "7", "8", "9"}

\* [a-z\d.-] under the i flag
DenomChars == LowerCase \cup UpperCase \cup Digits \cup {".", "-"}

IsDenomChar(c) == c \in DenomChars

IsDigit(c) == c \in Digits

\* s[from..to] is a non-empty run of [a-z\d.-]
IsDenomRun(s, from, to) ==
  /\ from <= to
  /\ \A n \in from..to : IsDenomChar(s[n])

\* s[from..to] is a non-empty run of \d
IsDigitRun(s, from, to) ==
  /\ from <= to
  /\ \A n \in from..to : IsDigit(s[n])

\* the places of the hyphens of s
Hyphens(s) == { n \in 1..Len(s) : s[n] = "-" }

\* /^([a-z\d.-]+)-(\d+)-([a-z\d.-]+)-(\d+)-lp\d+$/i : the places of the four
\* separating hyphens of every way the pattern matches s
PoolTokenMatches(s) ==
  LET H == Hyphens(s)
      TailOk(l) == /\ l + 3 <= Len(s)
                   /\ s[l + 1] \in {"l", "L"}
                   /\ s[l + 2] \in {"p", "P"}
                   /\ IsDigitRun(s, l + 3, Len(s))
  IN UNION { UNION { UNION {
       { <<i, j, k, l>> : l \in { l \in H : /\ k < l
                                           /\ IsDigitRun(s, k + 1, l - 1)
                                           /\ TailOk(l) } }
         : k \in { k \in H : j < k /\ IsDenomRun(s, j + 1, k - 1) } }
         : j \in { j \in H : i < j /\ IsDigitRun(s, i + 1, j - 1) } }
         : i \in { i \in H : IsDenomRun(s, 1, i - 1) } }

isPoolToken(denom) == PoolTokenMatches(denom) # {}

\* utils CommonAssetName: historical denoms and the denom they stand for
CommonAssetName == (d_eth1 :> d_eth)

\* a content of the table in which the target of an alias is an alias itself
ChainedAssetName == (d_eth1 :> d_eth) @@ (d_eth :> d_usdc)

\* the contents the table is taken to have
AliasTables == {CommonAssetName, ChainedAssetName}

\* CommonAssetName[denom] ?? denom
getCommonDenom(denom) ==
  IF denom \in DOMAIN aliasTable THEN aliasTable[denom] ELSE denom

(***************************************************************************)
(* TokenClient: inputs.                                                    *)
(***************************************************************************)
MaxListLen == 2     \* api.getTokens() answers with at most MaxListLen tokens
MaxPayload == 2     \* api.getCoinMapping() answers with at most MaxPayload pairs
MaxPrice == 2       \* a price answer quotes -1..MaxPrice
MaxInitializeCalls == 2  \* TokenClient.initialize is called at most this often

RegToken(denom, symbol, name, decimals, chain) ==
  [denom |-> denom, symbol |-> symbol, name |-> name, decimals |-> decimals,
   blockchain |-> chain]

RegTokens ==
  { RegToken(d_eth, s_ETH, n_Ether, 18, "eth"),
    RegToken(d_eth, s_WETH, n_Wrapped, 8, "bsc"),
    RegToken(d_eth1, s_WETH, n_Old, 18, "eth"),
    RegToken(d_usdc, s_SWTHB, n_Coin, 6, "eth"),
    RegToken(d_pool, s_LP, n_Pool, 18, "native") }

RECURSIVE SeqsUpTo(_, _)
SeqsUpTo(S, n) ==
  IF n = 0 THEN {<<>>}
  ELSE LET shorter == SeqsUpTo(S, n - 1)
       IN shorter \cup { Append(q, x) : q \in shorter, x \in S }

TokenLists == SeqsUpTo(RegTokens, MaxListLen)

WrapperKeys == {d_eth, d_eth1, d_usdc}
WrapperValues == {d_eth, d_usdc}

\* the `result` objects of a getCoinMapping answer
MappingResults ==
  UNION { [K -> WrapperValues] : K \in { K \in SUBSET WrapperKeys : Cardinality(K) <= MaxPayload } }

\* the sequences that list every element of S once
Orders(S) ==
  { o \in [1..Cardinality(S) -> S] : \A i, j \in 1..Cardinality(S) : o[i] = o[j] => i = j }

\* a getCoinMapping answer: with a result object (its keys in the order the
\* JSON text lists them), or without one
MappingResponses ==
  UNION { { [hasResult |-> TRUE, result |-> r, keys |-> o] : o \in Orders(DOMAIN r) } :
          r \in MappingResults }
    \cup { [hasResult |-> FALSE, result |-> <<>>, keys |-> <<>>] }

\* obj[key] = value
SetKey(obj, key, value) ==
  [k \in DOMAIN obj \cup {key} |-> IF k = key THEN value ELSE obj[k]]

\* Object.assign(target, source)
ObjectAssign(target, source) ==
  [k \in DOMAIN target \cup DOMAIN source |->
     IF k \in DOMAIN source THEN source[k] ELSE target[k]]

(***************************************************************************)
(* TokenClient.reloadUSDValues: the request.                               *)
(***************************************************************************)
id_ethereum == <<"e", "t", "h", "e", "r", "e", "u", "m">>

\* utils CoinGeckoTokenNames: the pricing-service id of a denom
CoinGeckoTokenNames == (d_eth :> id_ethereum)

\* denoms.reduce(...): pool tokens dropped, the others by their common denom
CommonDenoms(denoms) ==
  { getCommonDenom(denom) : denom \in { d \in denoms : ~isPoolToken(d) } }

\* Object.keys(commonDenoms).map(denom => CoinGeckoTokenNames[denom] ?? denom)
RequestedCoinIds(commonDenoms) ==
  { IF denom \in DOMAIN CoinGeckoTokenNames THEN CoinGeckoTokenNames[denom] ELSE denom :
    denom \in commonDenoms }

(***************************************************************************)
(* TokenClient.initialize: reloadTokens, reloadWrapperMap and              *)
(* reloadUSDValues awaited one after the other.  reg.initialize names the  *)
(* reload the running initialize call awaits, reg.started the reloads it   *)
(* has started.  One call of each reload is in flight at a time.           *)
(***************************************************************************)
InitializeSteps == <<"reloadTokens", "reloadWrapperMap", "reloadUSDValues">>

\* the reload `step` has resolved: r is reg with that call finished.  If
\* initialize awaits it, initialize goes on to start the next reload.
InitializeResume(r, step) ==
  IF r.initialize # step THEN r
  ELSE IF step = "reloadTokens"
  THEN [r EXCEPT !.initialize = "reloadWrapperMap",
                 !.reloadWrapperMap = "awaitGetCoinMapping",
                 !.started = Append(@, "reloadWrapperMap")]
  ELSE IF step = "reloadWrapperMap"
  THEN [r EXCEPT !.initialize = "reloadUSDValues",
                 !.reloadUSDValues = "awaitFetch",
                 !.commonDenoms = CommonDenoms(DOMAIN tokens),
                 !.coinIds = RequestedCoinIds(CommonDenoms(DOMAIN tokens)),
                 !.started = Append(@, "reloadUSDValues")]
  ELSE [r EXCEPT !.initialize = "idle"]

\* the reload initialize would start next is not already in flight
CanResume(step) ==
  reg.initialize = step =>
    /\ step = "reloadTokens" => reg.reloadWrapperMap = "idle"
    /\ step = "reloadWrapperMap" => reg.reloadUSDValues = "idle"

\* the failure swallowed: initialize goes on with the next reload
InitializeFail_Continues(r, step, e) == InitializeResume(r, step)

\* the reload `step` has rejected with e: if initialize awaits it, initialize
\* rejects with e and starts nothing more
InitializeFail(r, step, e) ==
  IF r.initialize # step THEN r
  ELSE [r EXCEPT !.initialize = "idle", !.initializeThrown = e]

(***************************************************************************)
(* TokenClient.reloadTokens                                                *)
(***************************************************************************)
\* the token stored without its symbol
StoreToken_NoSymbol(st, token) ==
  IF isPoolToken(token.denom)
  THEN [st EXCEPT !.poolTokens = SetKey(@, token.denom, token)]
  ELSE [st EXCEPT !.tokens = SetKey(@, token.denom, token)]

\* a pool token stored in both tables
StoreToken_PoolInBoth(st, token) ==
  IF isPoolToken(token.denom)
  THEN [st EXCEPT !.poolTokens = SetKey(@, token.denom, token),
                  !.tokens = SetKey(@, token.denom, token)]
  ELSE [st EXCEPT !.tokens = SetKey(@, token.denom, token),
                  !.symbols = SetKey(@, getCommonDenom(token.denom), token.symbol)]

\* the body of the for loop: st holds the three tables
StoreToken(st, token) ==
  IF isPoolToken(token.denom)
  THEN [st EXCEPT !.poolTokens = SetKey(@, token.denom, token)]
  ELSE [st EXCEPT !.tokens = SetKey(@, token.denom, token),
                  !.symbols = SetKey(@, getCommonDenom(token.denom), token.symbol)]

RECURSIVE StoreTokens(_, _)
\* for (const token of tokenList) { ... }
StoreTokens(st, tokenList) ==
  IF tokenList = <<>> THEN st
  ELSE StoreTokens(StoreToken(st, Head(tokenList)), Tail(tokenList))

\* the tables emptied before the loop: a full replace
ReloadedTables_Replace(st, tokenList) ==
  StoreTokens([tokens |-> <<>>, poolTokens |-> <<>>, symbols |-> <<>>], tokenList)

\* the tables reloadTokens leaves, from the tables it found and the fetched list
ReloadedTables(st, tokenList) == StoreTokens(st, tokenList)

\* reloadTokens(), up to `await this.api.getTokens()`
ReloadTokensCall ==
  /\ reg.reloadTokens = "idle"
  /\ reg' = [reg EXCEPT !.reloadTokens = "awaitGetTokens", !.thrown = ""]
  /\ UNCHANGED <<tokens, poolTokens, symbols, wrapperMap, wrapperOrder, usdValues,
               aliasTable, hist>>
  /\ UNCHANGED <<ethVars, sdk>>

\* getTokens answered with tokenList: the loop runs to its end without yielding
ReloadTokensApply(tokenList) ==
  /\ reg.reloadTokens = "awaitGetTokens"
  /\ CanResume("reloadTokens")
  /\ LET before == [tokens |-> tokens, poolTokens |-> poolTokens, symbols |-> symbols]
         after == ReloadedTables(before, tokenList)
     IN /\ tokens' = after.tokens
        /\ poolTokens' = after.poolTokens
        /\ symbols' = after.symbols
        /\ hist' = [hist EXCEPT !.tablesBefore = before, !.tokenList = tokenList,
                                !.tokensReloaded = TRUE]
  /\ reg' = InitializeResume([reg EXCEPT !.reloadTokens = "idle"], "reloadTokens")
  /\ UNCHANGED <<wrapperMap, wrapperOrder, usdValues, aliasTable>>
  /\ UNCHANGED <<ethVars, sdk>>

\* getTokens rejected: reloadTokens rejects with the same error
ReloadTokensRejected(e) ==
  /\ reg.reloadTokens = "awaitGetTokens"
  /\ reg' = InitializeFail([reg EXCEPT !.reloadTokens = "idle", !.thrown = e],
                           "reloadTokens", e)
  /\ UNCHANGED <<tokens, poolTokens, symbols, wrapperMap, wrapperOrder, usdValues,
               aliasTable, hist>>
  /\ UNCHANGED <<ethVars, sdk>>

(***************************************************************************)
(* TokenClient.reloadWrapperMap                                            *)
(***************************************************************************)
\* the map replaced by the fetched result
AssignWrapperMap_Replace(map, mappingResponse) ==
  IF mappingResponse.hasResult THEN mappingResponse.result ELSE <<>>

\* Object.assign(this.wrapperMap, mappingResponse?.result ?? {})
AssignWrapperMap(map, mappingResponse) ==
  ObjectAssign(map, IF mappingResponse.hasResult THEN mappingResponse.result ELSE <<>>)

\* the property order Object.assign leaves: a key the target has keeps its
\* place, a new key is appended in the order of the source
AssignKeys(order, keys) ==
  order \o SelectSeq(keys, LAMBDA k : \A i \in 1..Len(order) : order[i] # k)

\* reloadWrapperMap(), up to `await this.api.getCoinMapping()`
ReloadWrapperMapCall ==
  /\ reg.reloadWrapperMap = "idle"
  /\ reg' = [reg EXCEPT !.reloadWrapperMap = "awaitGetCoinMapping", !.thrown = ""]
  /\ UNCHANGED <<tokens, poolTokens, symbols, wrapperMap, wrapperOrder, usdValues,
               aliasTable, hist>>
  /\ UNCHANGED <<ethVars, sdk>>

\* getCoinMapping answered
ReloadWrapperMapApply(mappingResponse) ==
  /\ reg.reloadWrapperMap = "awaitGetCoinMapping"
  /\ CanResume("reloadWrapperMap")
  /\ wrapperMap' = AssignWrapperMap(wrapperMap, mappingResponse)
  /\ wrapperOrder' = AssignKeys(wrapperOrder, mappingResponse.keys)
  /\ hist' = [hist EXCEPT !.wrapperBefore2 = hist.wrapperBefore1,
                          !.payload1 = hist.payload2,
                          !.wrapperBefore1 = wrapperMap,
                          !.payload2 = IF mappingResponse.hasResult
                                       THEN mappingResponse.result ELSE <<>>,
                          !.wrapperReloads = IF @ < 2 THEN @ + 1 ELSE 2]
  /\ reg' = InitializeResume([reg EXCEPT !.reloadWrapperMap = "idle"],
                             "reloadWrapperMap")
  /\ UNCHANGED <<tokens, poolTokens, symbols, usdValues, aliasTable>>
  /\ UNCHANGED <<ethVars, sdk>>

\* getCoinMapping rejected: reloadWrapperMap rejects with the same error
ReloadWrapperMapRejected(e) ==
  /\ reg.reloadWrapperMap = "awaitGetCoinMapping"
  /\ reg' = InitializeFail([reg EXCEPT !.reloadWrapperMap = "idle", !.thrown = e],
                           "reloadWrapperMap", e)
  /\ UNCHANGED <<tokens, poolTokens, symbols, wrapperMap, wrapperOrder, usdValues,
               aliasTable, hist>>
  /\ UNCHANGED <<ethVars, sdk>>

(***************************************************************************)
(* TokenClient.reloadUSDValues                                             *)
(***************************************************************************)
\* the ids a price answer may be keyed by
CoinIds == {id_ethereum, d_usdc}

Prices == (0 - 1)..MaxPrice

\* the parsed body of a price answer: response[id] is response[id].usd
PriceResponses == UNION { [I -> Prices] : I \in SUBSET CoinIds }

\* the `denoms` argument, as the set of its elements
DenomArguments == SUBSET {d_eth, d_eth1, d_usdc, d_pool}

\* a value that may be undefined is the set of what it holds: {} or {v}
\* response?.[coinId]?.usd
UsdOf(response, coinId) == { response[id] : id \in coinId \cap DOMAIN response }

\* utils bnOrZero: the number, or zero for undefined
bnOrZero(number) == IF number = {} THEN 0 ELSE CHOOSE v \in number : TRUE

\* the price read back for denom, with the id of the request used again
ReadPrice_SameId(response, denom) ==
  LET coinId == IF denom \in DOMAIN CoinGeckoTokenNames
                THEN {CoinGeckoTokenNames[denom]} ELSE {denom}
  IN bnOrZero(UsdOf(response, coinId))

\* const coinId = CoinGeckoTokenNames[denom]; bnOrZero(response?.[coinId]?.usd)
ReadPrice(response, denom) ==
  LET coinId == IF denom \in DOMAIN CoinGeckoTokenNames
                THEN {CoinGeckoTokenNames[denom]} ELSE {}
  IN bnOrZero(UsdOf(response, coinId))

\* every price read back is stored, whatever its sign
StorePrices_Unchecked(values, commonDenoms, response) ==
  [d \in DOMAIN values \cup commonDenoms |->
     IF d \in commonDenoms THEN ReadPrice(response, d) ELSE values[d]]

\* for (const denom in commonDenoms) { if (price?.gt(0)) this.usdValues[denom] = price }
StorePrices(values, commonDenoms, response) ==
  LET stored == { d \in commonDenoms : ReadPrice(response, d) > 0 }
  IN [d \in DOMAIN values \cup stored |->
        IF d \in stored THEN ReadPrice(response, d) ELSE values[d]]

\* reloadUSDValues(denoms), up to `await fetch(...)`
ReloadUSDValuesCall(denoms) ==
  /\ reg.reloadUSDValues = "idle"
  /\ reg' = [reg EXCEPT !.reloadUSDValues = "awaitFetch",
                        !.commonDenoms = CommonDenoms(denoms),
                        !.coinIds = RequestedCoinIds(CommonDenoms(denoms)),
                        !.thrown = ""]
  /\ UNCHANGED <<tokens, poolTokens, symbols, wrapperMap, wrapperOrder, usdValues,
               aliasTable, hist>>
  /\ UNCHANGED <<ethVars, sdk>>

\* fetch answered, up to `await request.json()`
ReloadUSDValuesFetched ==
  /\ reg.reloadUSDValues = "awaitFetch"
  /\ reg' = [reg EXCEPT !.reloadUSDValues = "awaitJson"]
  /\ UNCHANGED <<tokens, poolTokens, symbols, wrapperMap, wrapperOrder, usdValues,
               aliasTable, hist>>
  /\ UNCHANGED <<ethVars, sdk>>

\* the body parsed: the loop over commonDenoms runs to its end without yielding
ReloadUSDValuesApply(response) ==
  /\ reg.reloadUSDValues = "awaitJson"
  /\ usdValues' = StorePrices(usdValues, reg.commonDenoms, response)
  /\ hist' = [hist EXCEPT !.usdBefore = usdValues, !.usdResponse = response,
                          !.usdDenoms = reg.commonDenoms,
                          !.usdCoinIds = reg.coinIds, !.usdReloaded = TRUE]
  /\ reg' = InitializeResume([reg EXCEPT !.reloadUSDValues = "idle"],
                             "reloadUSDValues")
  /\ UNCHANGED <<tokens, poolTokens, symbols, wrapperMap, wrapperOrder, aliasTable>>
  /\ UNCHANGED <<ethVars, sdk>>

\* fetch or request.json() rejected: reloadUSDValues rejects with the same error
ReloadUSDValuesRejected(e) ==
  /\ reg.reloadUSDValues \in {"awaitFetch", "awaitJson"}
  /\ reg' = InitializeFail([reg EXCEPT !.reloadUSDValues = "idle", !.thrown = e],
                           "reloadUSDValues", e)
  /\ UNCHANGED <<tokens, poolTokens, symbols, wrapperMap, wrapperOrder, usdValues,
               aliasTable, hist>>
  /\ UNCHANGED <<ethVars, sdk>>

(***************************************************************************)
(* TokenClient.initialize: the call.                                       *)
(***************************************************************************)
\* initialize(), up to the `await this.api.getTokens()` of its reloadTokens call
InitializeCall(r) ==
  [r EXCEPT !.initialize = "reloadTokens",
            !.reloadTokens = "awaitGetTokens",
            !.started = <<"reloadTokens">>,
            !.initializeCalls = @ + 1,
            !.initializeThrown = "",
            !.thrown = ""]

Initialize ==
  /\ reg.initialize = "idle"
  /\ reg.reloadTokens = "idle"
  /\ reg.initializeCalls < MaxInitializeCalls
  /\ reg' = InitializeCall(reg)
  /\ UNCHANGED <<tokens, poolTokens, symbols, wrapperMap, wrapperOrder, usdValues,
               aliasTable, hist>>
  /\ UNCHANGED <<ethVars, sdk>>

(***************************************************************************)
(* TradeHubSDK: constructor, initialize, connect, getConnectedWallet       *)
(***************************************************************************)
Networks == {"mainnet", "devnet"}
Wallets == {"wallet1"}
TxnFeeMaps == {"fees1"}

\* the steps of initialize(wallet), in the order of its awaits
SdkSteps == <<"reloadTxnFees", "ws.connect", "token.initialize", "wallet.init">>

\* the fields the constructor of TradeHubSDK sets from opts; an optional value is
\* the empty set or the set of the value, token is the new TokenClient's tables
TradeHubSDK(opts) ==
  [network |-> opts.network, debugMode |-> opts.debugMode, txFees |-> opts.txFees,
   initialized |-> FALSE, wallet |-> {},
   token |-> [tokens |-> <<>>, poolTokens |-> <<>>, symbols |-> <<>>,
              wrapperMap |-> <<>>, usdValues |-> <<>>]]

\* the instance made to share the state of the one that is current
ConnectedTradeHubSDK_Shared(wallet, opts) ==
  [TradeHubSDK(opts) EXCEPT !.wallet = {wallet},
                            !.initialized = sdk.initialized,
                            !.token = [tokens |-> tokens, poolTokens |-> poolTokens,
                                       symbols |-> symbols, wrapperMap |-> wrapperMap,
                                       usdValues |-> usdValues]]

\* new ConnectedTradeHubSDK(wallet, opts): super(opts), then this.wallet = wallet
ConnectedTradeHubSDK(wallet, opts) == [TradeHubSDK(opts) EXCEPT !.wallet = {wallet}]

\* generateOpts()
generateOpts == [network |-> sdk.network, debugMode |-> sdk.debugMode, txFees |-> sdk.txFees]

\* checkWallet() of an instance, which getConnectedWallet() returns
checkWallet(instance) ==
  IF instance.wallet = {}
  THEN Thrown("wallet not connected")
  ELSE Returned(CHOOSE w \in instance.wallet : TRUE, 0)

\* no initialize or connect call is running
SdkIdle == [op |-> "none", pc |-> "idle", arg |-> {}, log |-> <<>>, thrown |-> "",
            returned |-> {}]

\* the flag set as soon as initialize is entered
InitializeEntered_FlagSet(s, op, wallet) ==
  [s EXCEPT !.call = [SdkIdle EXCEPT !.op = op, !.pc = "awaitTxnFees", !.arg = wallet,
                                     !.log = <<Call("reloadTxnFees", "")>>],
            !.initialized = TRUE,
            !.initializedBy = <<Call("reloadTxnFees", "")>>]

\* initialize(wallet) entered, by itself or from connect(wallet): up to
\* `await this.api.getTxnFees()`
InitializeEntered(s, op, wallet) ==
  [s EXCEPT !.call = [SdkIdle EXCEPT !.op = op, !.pc = "awaitTxnFees", !.arg = wallet,
                                     !.log = <<Call("reloadTxnFees", "")>>]]

\* this.initialized = true, and what connect does after its await
InitializeDone(s) ==
  LET done == [s EXCEPT !.initialized = TRUE,
                        !.initializedBy = Answered(s.call.log, "ok"),
                        !.call.log = Answered(@, "ok"),
                        !.call.pc = "done"]
  IN IF s.call.op = "connect"
     THEN [done EXCEPT !.call.returned =
             {ConnectedTradeHubSDK(CHOOSE w \in s.call.arg : TRUE, generateOpts)}]
     ELSE done

\* sdk.initialize(wallet?) or sdk.connect(wallet) is called
SdkInitialize(op, wallet) ==
  /\ sdk.call.pc = "idle"
  /\ op = "connect" => wallet # {}
  /\ reg.initialize = "idle" /\ reg.reloadTokens = "idle"
  /\ reg.initializeCalls < MaxInitializeCalls
  /\ sdk' = InitializeEntered(sdk, op, wallet)
  /\ UNCHANGED <<tokens, poolTokens, symbols, wrapperMap, wrapperOrder, usdValues,
               aliasTable, reg, hist>>
  /\ UNCHANGED ethVars

\* api.getTxnFees() answered: txFees is set and ws.connect() is awaited
TxnFeesReturn(fees) ==
  /\ sdk.call.pc = "awaitTxnFees"
  /\ sdk' = [sdk EXCEPT !.txFees = {fees},
                        !.call.pc = "awaitWsConnect",
                        !.call.log = Append(Answered(@, "ok"), Call("ws.connect", ""))]
  /\ UNCHANGED <<tokens, poolTokens, symbols, wrapperMap, wrapperOrder, usdValues,
               aliasTable, reg, hist>>
  /\ UNCHANGED ethVars

\* the websocket is connected: token.initialize() is called, which runs up to the
\* await of its reloadTokens
WsConnectReturn ==
  /\ sdk.call.pc = "awaitWsConnect"
  /\ sdk' = [sdk EXCEPT !.call.pc = "awaitTokenInitialize",
                        !.call.log = Append(Answered(@, "ok"),
                                            Call("token.initialize", ""))]
  /\ reg' = InitializeCall(reg)
  /\ UNCHANGED <<tokens, poolTokens, symbols, wrapperMap, wrapperOrder, usdValues,
               aliasTable, hist>>
  /\ UNCHANGED ethVars

\* token.initialize() has resolved: wallet.init() is awaited if a wallet was given,
\* else the flag is set
TokenInitializeReturn ==
  /\ sdk.call.pc = "awaitTokenInitialize"
  /\ reg.initialize = "idle" /\ reg.initializeThrown = ""
  /\ sdk' = IF sdk.call.arg # {}
            THEN [sdk EXCEPT !.call.pc = "awaitWalletInit",
                             !.call.log = Append(Answered(@, "ok"),
                                                 Call("wallet.init", sdk.call.arg))]
            ELSE InitializeDone(sdk)
  /\ UNCHANGED <<tokens, poolTokens, symbols, wrapperMap, wrapperOrder, usdValues,
               aliasTable, reg, hist>>
  /\ UNCHANGED ethVars

\* token.initialize() has rejected: initialize rejects with its error
TokenInitializeRejected ==
  /\ sdk.call.pc = "awaitTokenInitialize"
  /\ reg.initialize = "idle" /\ reg.initializeThrown # ""
  /\ sdk' = [sdk EXCEPT !.call.pc = "done",
                        !.call.log = Answered(@, reg.initializeThrown),
                        !.call.thrown = reg.initializeThrown]
  /\ UNCHANGED <<tokens, poolTokens, symbols, wrapperMap, wrapperOrder, usdValues,
               aliasTable, reg, hist>>
  /\ UNCHANGED ethVars

\* wallet.init() has resolved: the flag is set
WalletInitReturn ==
  /\ sdk.call.pc = "awaitWalletInit"
  /\ sdk' = InitializeDone(sdk)
  /\ UNCHANGED <<tokens, poolTokens, symbols, wrapperMap, wrapperOrder, usdValues,
               aliasTable, reg, hist>>
  /\ UNCHANGED ethVars

\* getTxnFees, ws.connect or wallet.init rejects with e: initialize has no catch
SdkAwaitRejected(e) ==
  /\ sdk.call.pc \in {"awaitTxnFees", "awaitWsConnect", "awaitWalletInit"}
  /\ sdk' = [sdk EXCEPT !.call.pc = "done",
                        !.call.log = Answered(@, e),
                        !.call.thrown = e]
  /\ UNCHANGED <<tokens, poolTokens, symbols, wrapperMap, wrapperOrder, usdValues,
               aliasTable, reg, hist>>
  /\ UNCHANGED ethVars

\* the promise of the finished call is settled; the instance keeps its fields
SdkSettle ==
  /\ sdk.call.pc = "done"
  /\ sdk' = [sdk EXCEPT !.call = SdkIdle]
  /\ UNCHANGED <<tokens, poolTokens, symbols, wrapperMap, wrapperOrder, usdValues,
               aliasTable, reg, hist>>
  /\ UNCHANGED ethVars

(***************************************************************************)
(* TokenClient: symbols and names.                                         *)
(***************************************************************************)
LowerLetters ==
  <<"a", "b", "c", "d", "e", "f", "g", "h", "i", "j", "k", "l", "m",
    "n", "o", "p", "q", "r", "s", "t", "u", "v", "w", "x", "y", "z">>
UpperLetters ==
  <<"A", "B", "C", "D", "E", "F", "G", "H", "I", "J", "K", "L", "M",
    "N", "O", "P", "Q", "R", "S", "T", "U", "V", "W", "X", "Y", "Z">>

\* the upper-case (lower-case) form of each letter
UpperOf == [c \in LowerCase |-> UpperLetters[CHOOSE i \in 1..26 : LowerLetters[i] = c]]
LowerOf == [c \in UpperCase |-> LowerLetters[CHOOSE i \in 1..26 : UpperLetters[i] = c]]

\* String.prototype.toUpperCase
toUpperCase(str) ==
  [i \in 1..Len(str) |-> IF str[i] \in LowerCase THEN UpperOf[str[i]] ELSE str[i]]

\* String.prototype.toLowerCase
toLowerCase(str) ==
  [i \in 1..Len(str) |-> IF str[i] \in UpperCase THEN LowerOf[str[i]] ELSE str[i]]

\* the decimals looked up under the common denom
getDecimals_CommonDenom(denom) ==
  LET commonDenom == getCommonDenom(denom)
  IN IF commonDenom \in DOMAIN tokens THEN {tokens[commonDenom].decimals}
     ELSE IF commonDenom \in DOMAIN poolTokens THEN {poolTokens[commonDenom].decimals}
     ELSE {}

\* getDecimals(denom): {} for undefined, else the set of the one number
getDecimals(denom) ==
  IF denom \in DOMAIN tokens THEN {tokens[denom].decimals}
  ELSE IF denom \in DOMAIN poolTokens THEN {poolTokens[denom].decimals}
  ELSE {}

\* the symbol looked up under the denom as given
getSymbol_NoCommonDenom(denom) ==
  IF denom \in DOMAIN symbols THEN symbols[denom] ELSE toUpperCase(denom)

\* getSymbol(denom)
getSymbol(denom) ==
  LET commonDenom == getCommonDenom(denom)
  IN IF commonDenom \in DOMAIN symbols THEN symbols[commonDenom]
     ELSE toUpperCase(commonDenom)

\* SYMBOL_OVERRIDE
SYMBOL_OVERRIDE == (s_SWTHB :> s_SWTH) @@ (s_NNEO :> s_nNEO)

\* String.prototype.match with the pool-token pattern: {} for null, else the one
\* match the greedy groups settle on (the first group as long as it can be,
\* then the third)
PoolTokenMatch(s) ==
  LET M == PoolTokenMatches(s)
  IN { m \in M : \A o \in M : \/ o[1] < m[1]
                              \/ o[1] = m[1] /\ o[3] <= m[3] }

\* match[n] of the match whose hyphens are at m
MatchGroup(s, m, n) ==
  LET from == IF n = 1 THEN 1 ELSE m[n - 1] + 1
  IN SubSeq(s, from, m[n] - 1)

RECURSIVE getTokenName(_)
\* getTokenName(denom), for a denom that is a string
getTokenName(denom) ==
  LET lower == toLowerCase(denom)
      symbol == getSymbol(lower)
      match == PoolTokenMatch(symbol)
  IN IF isPoolToken(lower)
     THEN IF match = {} THEN symbol
          ELSE LET m == CHOOSE m \in match : TRUE
                   denomA == MatchGroup(symbol, m, 1)
                   denomB == MatchGroup(symbol, m, 3)
               IN getTokenName(denomA) \o <<"-">> \o getTokenName(denomB)
     ELSE IF symbol \in DOMAIN SYMBOL_OVERRIDE THEN SYMBOL_OVERRIDE[symbol]
     ELSE symbol

\* the two weights taken from each other's group
getTokenDesc_WeightsSwapped(denom) ==
  LET lower == toLowerCase(denom)
      match == PoolTokenMatch(lower)
  IN IF isPoolToken(lower)
     THEN IF match = {} THEN getSymbol(lower)
          ELSE LET m == CHOOSE m \in match : TRUE
               IN MatchGroup(lower, m, 4) \o <<"%", " ">>
                    \o getTokenName(MatchGroup(lower, m, 1)) \o <<" ", "/", " ">>
                    \o MatchGroup(lower, m, 2) \o <<"%", " ">>
                    \o getTokenName(MatchGroup(lower, m, 3))
     ELSE IF lower \in DOMAIN tokens THEN tokens[lower].name
     ELSE getSymbol(lower)

\* getTokenDesc(denom), for a denom that is a string
getTokenDesc(denom) ==
  LET lower == toLowerCase(denom)
      match == PoolTokenMatch(lower)
  IN IF isPoolToken(lower)
     THEN IF match = {} THEN getSymbol(lower)
          ELSE LET m == CHOOSE m \in match : TRUE
                   denomA == MatchGroup(lower, m, 1)
                   weightA == MatchGroup(lower, m, 2)
                   denomB == MatchGroup(lower, m, 3)
                   weightB == MatchGroup(lower, m, 4)
                   symbolA == getTokenName(denomA)
                   symbolB == getTokenName(denomB)
               IN weightA \o <<"%", " ">> \o symbolA \o <<" ", "/", " ">>
                    \o weightB \o <<"%", " ">> \o symbolB
     ELSE IF lower \in DOMAIN tokens THEN tokens[lower].name
     ELSE getSymbol(lower)

(***************************************************************************)
(* TokenClient: wrapped and source tokens.  A result that may be undefined *)
(* or null is the set of what it holds: {} or {token}.                     *)
(***************************************************************************)
\* this.tokens[denom]
TokenAt(denom) == IF denom \in DOMAIN tokens THEN {tokens[denom]} ELSE {}

\* Object.values(this.wrapperMap).includes(denom)
IsWrapperValue(denom) == \E k \in DOMAIN wrapperMap : wrapperMap[k] = denom

RECURSIVE ScanWrappers(_, _, _)
\* for (const [wrappedDenom, sourceDenom] of Object.entries(this.wrapperMap)) { ... }
\* and the `return null` the loop falls through to
ScanWrappers(entries, denom, chain) ==
  IF entries = <<>> THEN {}
  ELSE LET wrappedDenom == Head(entries)
           sourceDenom == wrapperMap[wrappedDenom]
           token == TokenAt(wrappedDenom)
       IN IF sourceDenom # denom
          THEN ScanWrappers(Tail(entries), denom, chain)
          ELSE IF chain = {} \/ { t.blockchain : t \in token } = chain
               THEN token
               ELSE ScanWrappers(Tail(entries), denom, chain)

\* getWrappedToken(denom, blockchain?): chain is {} when no blockchain is given
getWrappedToken(denom, chain) ==
  IF denom \in DOMAIN wrapperMap THEN TokenAt(denom)
  ELSE IF IsWrapperValue(denom) THEN ScanWrappers(wrapperOrder, denom, chain)
  ELSE {}

\* the wrapper relation looked up before the test for a source denom
getSourceToken_KeyFirst(denom) ==
  IF denom \in DOMAIN wrapperMap THEN TokenAt(wrapperMap[denom])
  ELSE IF IsWrapperValue(denom) THEN TokenAt(denom)
  ELSE {}

\* getSourceToken(denom)
getSourceToken(denom) ==
  IF IsWrapperValue(denom) THEN TokenAt(denom)
  ELSE IF denom \in DOMAIN wrapperMap THEN TokenAt(wrapperMap[denom])
  ELSE {}

\* the tokens and the getCoinMapping answers the joint registry runs draw from
CatalogTokens ==
  { RegToken(d_eth, s_ETH, n_Ether, 18, "eth"),
    RegToken(d_eth1, s_WETH, n_Old, 18, "eth"),
    RegToken(d_usdc, s_USDC, n_Coin, 6, "bsc") }

\* a getTokens answer that lists no token twice
CatalogLists ==
  { l \in SeqsUpTo(CatalogTokens, MaxListLen) :
      \A i, j \in 1..Len(l) : l[i] = l[j] => i = j }

CatalogPairs == { <<d_eth1, d_eth>>, <<d_usdc, d_eth>>, <<d_eth, d_usdc>> }

PairResponses ==
  { [hasResult |-> TRUE, result |-> (pair[1] :> pair[2]), keys |-> <<pair[1]>>] :
    pair \in CatalogPairs }

(***************************************************************************)
(* ETHClient.getExternalBalances                                           *)
(***************************************************************************)
\* stripHexPrefix of utils: a leading "0x" dropped
stripHexPrefix(input) ==
  IF Len(input) >= 2 /\ input[1] = "0" /\ input[2] = "x"
  THEN SubSeq(input, 3, Len(input))
  ELSE input

\* an asset id that is not the 40 characters of an EVM address
ShortAssetId == "6c6f636b"

\* a token of the directory api.getTokens() answers with
DirectoryToken(denom, asset_id, chain, lock_proxy_hash) ==
  [denom |-> denom, asset_id |-> asset_id, blockchain |-> chain,
   lock_proxy_hash |-> lock_proxy_hash, external_balance |-> Absent]

\* the directory's tokens: locked through the eth lock proxy with its hash written
\* in lower case, in upper case and with a prefix, through another lock proxy,
\* with a short asset id, and of the other chain
DirectoryTokens ==
  { DirectoryToken(d_eth, ZeroAssetId, "eth", <<"e", "1", "a">>),
    DirectoryToken(d_usdc, Erc20AssetId, "eth", <<"e", "1", "a">>),
    DirectoryToken(d_usdc, Erc20AssetId, "eth", <<"E", "1", "A">>),
    DirectoryToken(d_usdc, Erc20AssetId, "eth", <<"0", "x", "e", "1", "a">>),
    DirectoryToken(d_usdc, Erc20AssetId, "eth", <<"0", "1", "d">>),
    DirectoryToken(d_usdc, ShortAssetId, "eth", <<"e", "1", "a">>),
    DirectoryToken(d_usdc, Erc20AssetId, "bsc", <<"e", "1", "a">>),
    DirectoryToken(d_usdc, Erc20AssetId, "bsc", <<"b", "5", "c">>) }

\* the answers of api.getTokens()
Directories == UNION { [1..n -> DirectoryTokens] : n \in 0..MaxListLen }

\* the whitelistDenoms argument: left out, or an array of denoms
Whitelists ==
  {NoWhitelist} \cup { [given |-> TRUE, denoms |-> D] : D \in {{}, {d_eth}, {d_usdc}} }

\* the balances the balance reader answers with, one for each asset asked for
ReadBalances == {7, 12}
BalancesRead(n) == [1..n -> ReadBalances]

\* the test on the asset id left out
IsExternalToken_AnyAssetId(token, chain, lockProxyAddress, whitelistDenoms) ==
  /\ token.blockchain = chain
  /\ toLowerCase(token.lock_proxy_hash) = stripHexPrefix(lockProxyAddress)
  /\ (~whitelistDenoms.given \/ token.denom \in whitelistDenoms.denoms)

\* the test of tokenList.filter(...); lockProxyAddress is already in lower case
IsExternalToken(token, chain, lockProxyAddress, whitelistDenoms) ==
  /\ token.blockchain = chain
  /\ Len(token.asset_id) = 40
  /\ toLowerCase(token.lock_proxy_hash) = stripHexPrefix(lockProxyAddress)
  /\ (~whitelistDenoms.given \/ token.denom \in whitelistDenoms.denoms)

\* tokenList.filter(...)
FilterTokens(tokenList, chain, lockProxyAddress, whitelistDenoms) ==
  SelectSeq(tokenList,
            LAMBDA token : IsExternalToken(token, chain, lockProxyAddress, whitelistDenoms))

\* the loop that sets tokens[i].external_balance = balances[i].toString()
AnnotateTokens(tokenSeq, balances) ==
  [i \in 1..Len(tokenSeq) |->
     [tokenSeq[i] EXCEPT !.external_balance = toString(balances[i])]]

\* getExternalBalances(api, address, whitelistDenoms), up to `await api.getTokens()`
GetExternalBalances(address, whitelistDenoms) ==
  /\ frame.pc = "idle"
  /\ frame' = [IdleFrame EXCEPT !.op = "getExternalBalances", !.ethAddress = address,
                                !.whitelistDenoms = whitelistDenoms,
                                !.pc = "awaitGetTokens"]
  /\ calls' = <<Call("getTokens", "")>>
  /\ result' = NoResult
  /\ UNCHANGED <<blockchain, deployed, submitDeployed>>
  /\ UNCHANGED regVars

\* api.getTokens() answered: the list is filtered and the balances of the tokens
\* kept are asked for in one contract.getBalances(address, assetIds)
GetTokensReturn(tokenList) ==
  /\ frame.op = "getExternalBalances"
  /\ frame.pc = "awaitGetTokens"
  /\ LET kept == FilterTokens(tokenList, blockchain, toLowerCase(getLockProxyAddress),
                              frame.whitelistDenoms)
         assetIds == [i \in 1..Len(kept) |-> appendHexPrefix(kept[i].asset_id)]
     IN /\ frame' = [frame EXCEPT !.pc = "awaitGetBalances", !.tokenList = tokenList,
                                  !.tokens = kept]
        /\ calls' = Append(Answered(calls, "ok"),
                           Call("getBalances", [address |-> frame.ethAddress,
                                                assetIds |-> assetIds]))
  /\ UNCHANGED <<blockchain, deployed, result, submitDeployed>>
  /\ UNCHANGED regVars

\* contract.getBalances answered: the tokens are annotated and returned
\* (frame.tokens is the array returned, result.val its length)
GetBalancesReturn(balances) ==
  /\ frame.op = "getExternalBalances"
  /\ frame.pc = "awaitGetBalances"
  /\ balances \in BalancesRead(Len(frame.tokens))
  /\ frame' = [frame EXCEPT !.pc = "done",
                            !.tokens = AnnotateTokens(frame.tokens, balances)]
  /\ calls' = Answered(calls, balances)
  /\ result' = Returned("tokens", Len(frame.tokens))
  /\ UNCHANGED <<blockchain, deployed, submitDeployed>>
  /\ UNCHANGED regVars

(***************************************************************************)
(* Initial states and specifications.                                      *)
(***************************************************************************)
\* TokenClient's field initialisers: every table starts empty
InitTables ==
  /\ tokens = <<>>
  /\ poolTokens = <<>>
  /\ symbols = <<>>
  /\ wrapperMap = <<>>
  /\ wrapperOrder = <<>>
  /\ usdValues = <<>>
  /\ reg = [reloadTokens |-> "idle", reloadWrapperMap |-> "idle",
            reloadUSDValues |-> "idle", commonDenoms |-> {}, coinIds |-> {},
            thrown |-> "", initialize |-> "idle", started |-> <<>>,
            initializeCalls |-> 0, initializeThrown |-> ""]
  /\ hist = [tablesBefore |-> [tokens |-> <<>>, poolTokens |-> <<>>, symbols |-> <<>>],
             tokenList |-> <<>>, tokensReloaded |-> FALSE,
             wrapperBefore2 |-> <<>>, payload1 |-> <<>>,
             wrapperBefore1 |-> <<>>, payload2 |-> <<>>, wrapperReloads |-> 0,
             usdBefore |-> <<>>, usdResponse |-> <<>>, usdDenoms |-> {},
             usdCoinIds |-> {}, usdReloaded |-> FALSE]

\* new TradeHubSDK(opts) with no txFees in opts; initializedBy is the history of
\* the steps that had resolved when the flag was set
InitSdk(networks) ==
  \E n \in networks :
    sdk = [network |-> n, debugMode |-> FALSE, txFees |-> {}, initialized |-> FALSE,
           wallet |-> {}, initializedBy |-> <<>>, call |-> SdkIdle]

\* the registry of the build whose alias table is CommonAssetName
InitRegistry == InitTables /\ aliasTable = CommonAssetName /\ InitSdk({"mainnet"})

\* ETHClient.instance accepts the supported chains only; nothing is running
InitEthClient ==
  /\ blockchain \in SUPPORTED_BLOCKCHAINS
  /\ deployed = {}
  /\ frame = IdleFrame
  /\ calls = <<>>
  /\ result = NoResult
  /\ submitDeployed = FALSE

Init == InitEthClient /\ InitRegistry

\* the registry of an SDK whose clients are idle
InitTokenClient ==
  /\ InitRegistry
  /\ blockchain = "eth"
  /\ deployed = {}
  /\ frame = IdleFrame
  /\ calls = <<>>
  /\ result = NoResult
  /\ submitDeployed = FALSE

\* the registry of a build with either content of the alias table
InitAlias ==
  /\ InitTables
  /\ InitSdk({"mainnet"})
  /\ aliasTable \in AliasTables
  /\ blockchain = "eth"
  /\ deployed = {}
  /\ frame = IdleFrame
  /\ calls = <<>>
  /\ result = NoResult
  /\ submitDeployed = FALSE

\* one ETHClient serving lockDeposit, getDepositFeeAmount and sendDeposit calls
NextEth ==
  \/ \E t \in LockTokens, a \in Amounts, g \in GasLimits,
        s \in SwthAddresses, o \in EthAddresses : LockDeposit(t, a, g, s, o)
  \/ \E n \in Nonces : LockSubmit(n)
  \/ LockReturn
  \/ \E t \in EthTokens, a \in WalletAddresses : GetDepositFeeAmount(t, a)
  \/ \E t \in EthTokens, s \in SwthAddresses, o \in EthAddresses : SendDeposit(t, s, o)
  \/ WalletAddressReturn
  \/ \E fi \in FeeInfos : FeeInfoReturn(fi)
  \/ \E n \in Nonces : CodeReturn(n)
  \/ \E a \in EthAddresses, w \in BOOLEAN : SignReturn(a, w)
  \/ PostReturn
  \/ \E e \in TransportErrors : AwaitRejected(e)
  \/ Settle
  \/ \E a \in WalletAddresses : DeployWallet(a)

SpecEth == Init /\ [][NextEth]_vars

\* one ETHClient serving approveERC20 calls
NextApprove ==
  \/ \E t \in ApproveTokens, g \in GasLimits, o \in EthAddresses : ApproveERC20(t, g, o)
  \/ \E n \in Nonces : ApproveSubmit(n)
  \/ ApproveReturn
  \/ \E e \in TransportErrors : AwaitRejected(e)
  \/ Settle

SpecApprove == Init /\ [][NextApprove]_vars

\* one ETHClient serving getExternalBalances calls
NextBalances ==
  \/ \E o \in EthAddresses, w \in Whitelists : GetExternalBalances(o, w)
  \/ \E l \in Directories : GetTokensReturn(l)
  \/ \E n \in 0..MaxListLen : \E b \in BalancesRead(n) : GetBalancesReturn(b)
  \/ \E e \in TransportErrors : AwaitRejected(e)
  \/ Settle

SpecBalances == Init /\ [][NextBalances]_vars

\* the token tables under reloadTokens calls
NextTokens ==
  \/ ReloadTokensCall
  \/ \E l \in TokenLists : ReloadTokensApply(l)
  \/ \E e \in TransportErrors : ReloadTokensRejected(e)

SpecTokens == InitTokenClient /\ [][NextTokens]_vars

\* the wrapper map under reloadWrapperMap calls
NextWrapper ==
  \/ ReloadWrapperMapCall
  \/ \E r \in MappingResponses : ReloadWrapperMapApply(r)
  \/ \E e \in TransportErrors : ReloadWrapperMapRejected(e)

SpecWrapper == InitTokenClient /\ [][NextWrapper]_vars

\* the price cache under reloadUSDValues calls
NextUsd ==
  \/ \E denoms \in DenomArguments : ReloadUSDValuesCall(denoms)
  \/ ReloadUSDValuesFetched
  \/ \E response \in PriceResponses : ReloadUSDValuesApply(response)
  \/ \E e \in TransportErrors : ReloadUSDValuesRejected(e)

SpecUsd == InitTokenClient /\ [][NextUsd]_vars

\* the token tables under reloadTokens calls, for either content of the alias table
NextAlias ==
  \/ ReloadTokensCall
  \/ \E t \in RegTokens : ReloadTokensApply(<<t>>)

SpecAlias == InitAlias /\ [][NextAlias]_vars

\* the price answers that quote the pricing id of eth, or nothing
EthPriceResponses == { r \in PriceResponses : DOMAIN r \subseteq {id_ethereum} }

\* the registry under TokenClient.initialize calls
NextInitialize ==
  \/ Initialize
  \/ \E t \in CatalogTokens : ReloadTokensApply(<<t>>)
  \/ \E e \in TransportErrors : ReloadTokensRejected(e)
  \/ \E r \in PairResponses : ReloadWrapperMapApply(r)
  \/ \E e \in TransportErrors : ReloadWrapperMapRejected(e)
  \/ ReloadUSDValuesFetched
  \/ \E response \in EthPriceResponses : ReloadUSDValuesApply(response)
  \/ \E e \in TransportErrors : ReloadUSDValuesRejected(e)

SpecInitialize == InitTokenClient /\ [][NextInitialize]_vars

\* a new SDK of either network, its clients idle
InitTradeHubSDK ==
  /\ InitTables
  /\ aliasTable = CommonAssetName
  /\ InitSdk(Networks)
  /\ blockchain = "eth"
  /\ deployed = {}
  /\ frame = IdleFrame
  /\ calls = <<>>
  /\ result = NoResult
  /\ submitDeployed = FALSE

\* what the API answers the registry of the SDK with: one token, one wrapper pair
\* and one price
SdkCatalog == { t \in CatalogTokens : t.denom = d_eth }
SdkPairs == { r \in PairResponses : r.keys = <<d_eth1>> }
SdkPrices == { r \in EthPriceResponses : DOMAIN r = {id_ethereum} /\ r[id_ethereum] = 1 }

\* one TradeHubSDK under initialize and connect calls
NextSdk ==
  \/ \E w \in {{}} \cup {{x} : x \in Wallets} : SdkInitialize("initialize", w)
  \/ \E x \in Wallets : SdkInitialize("connect", {x})
  \/ \E fees \in TxnFeeMaps : TxnFeesReturn(fees)
  \/ WsConnectReturn
  \/ TokenInitializeReturn
  \/ TokenInitializeRejected
  \/ WalletInitReturn
  \/ \E e \in TransportErrors : SdkAwaitRejected(e)
  \/ SdkSettle
  \/ \E t \in SdkCatalog : ReloadTokensApply(<<t>>)
  \/ \E e \in TransportErrors : ReloadTokensRejected(e)
  \/ \E r \in SdkPairs : ReloadWrapperMapApply(r)
  \/ \E e \in TransportErrors : ReloadWrapperMapRejected(e)
  \/ ReloadUSDValuesFetched
  \/ \E response \in SdkPrices : ReloadUSDValuesApply(response)
  \/ \E e \in TransportErrors : ReloadUSDValuesRejected(e)

SpecSdk == InitTradeHubSDK /\ [][NextSdk]_vars

\* the registry under reloadTokens and reloadWrapperMap calls that overlap
NextRegistry ==
  \/ ReloadTokensCall
  \/ \E l \in CatalogLists : ReloadTokensApply(l)
  \/ ReloadWrapperMapCall
  \/ \E r \in PairResponses : ReloadWrapperMapApply(r)

SpecRegistry == InitTokenClient /\ [][NextRegistry]_vars

(***************************************************************************)
(* Properties.                                                             *)
(***************************************************************************)
GuardMessage == "Minimum gas required: 150,000"

\* C1: lockDeposit called with a gasLimit below 150,000 throws before any remote
\* call is issued (no getTransactionCount query, no lock transaction); with a
\* gasLimit of 150,000 or more the guard never rejects.
C1_GasGuardBeforeAnyCall ==
  frame.op = "lockDeposit" =>
    IF frame.gasLimit < 150000
    THEN /\ result = Thrown(GuardMessage)
         /\ frame.pc = "done"
         /\ calls = <<>>
    ELSE /\ result.err # GuardMessage
         /\ CallsOf(calls, "getTransactionCount") # {}

C1_Witness ==
  /\ frame.op = "lockDeposit"
  /\ frame.gasLimit = 149999
  /\ result = Thrown(GuardMessage)
  /\ calls = <<>>

\* C2: every lock transaction submitted by lockDeposit carries the value `amount`
\* when the token's asset_id is the all-zero 40-hex address and the value zero for
\* every other token; the amount is always in the contract arguments, as the amount
\* and the callAmount, with a feeAmount of zero.
C2_LockValueOnlyForNative ==
  \A i \in CallsOf(calls, "lock") :
    /\ calls[i].arg.value =
         (IF frame.token.asset_id = "0000000000000000000000000000000000000000"
          THEN frame.amount ELSE 0)
    /\ calls[i].arg.values = <<frame.amount, 0, frame.amount>>

C2_Witness ==
  /\ frame.op = "lockDeposit"
  /\ frame.token.asset_id = ZeroAssetId
  /\ frame.amount > 0
  /\ \E i \in CallsOf(calls, "lock") : calls[i].arg.value = frame.amount

\* the calls of one kind that were answered without a failure
AnsweredOk(op) == { i \in CallsOf(calls, op) : calls[i].out = "ok" }

\* the running getDepositFeeAmount got its isContract answer and had every fee it needed
FeeQuoted ==
  /\ AnsweredOk("getCode") # {}
  /\ ~(~frame.walletContractDeployed /\ frame.feeInfo.createWallet = Absent)

\* the fee getDepositFeeAmount has to return, from the fee schedule it fetched and
\* the isContract answer it got
QuotedFee ==
  frame.feeInfo.deposit
    + (IF frame.walletContractDeployed THEN 0 ELSE frame.feeInfo.createWallet)

InsufficientOutcome == Returned("insufficient balance", 0)

\* C3: sendDeposit returns the insufficient-balance outcome as a value, without
\* calling the sign callback and without a POST to the payer, whenever the token's
\* external_balance is strictly less than 2 x the fee getDepositFeeAmount returned;
\* with a balance of at least 2 x the fee it does not return that outcome.
C3_InsufficientBalanceIsAValue ==
  (frame.op = "sendDeposit" /\ FeeQuoted) =>
    IF frame.token.external_balance < 2 * QuotedFee
    THEN /\ result = InsufficientOutcome
         /\ frame.pc = "done"
         /\ CallsOf(calls, "sign") = {}
         /\ CallsOf(calls, "postDeposit") = {}
    ELSE /\ result.tag # "insufficient balance"
         /\ CallsOf(calls, "sign") # {}

C3_Witness ==
  /\ frame.op = "sendDeposit"
  /\ FeeQuoted
  /\ QuotedFee = 2
  /\ frame.token.external_balance = 3
  /\ result = InsufficientOutcome
  /\ CallsOf(calls, "sign") = {}

FlowOrder == <<"getWalletAddress", "getFeeInfo", "getCode", "sign", "postDeposit">>

\* C4: in every execution of sendDeposit the steps are issued in the order: derive
\* the deposit address, fetch the fee schedule and probe the code of exactly the
\* derived address, obtain the signature, POST to the payer; a step is issued only
\* after the one before it completed.
C4_DepositFlowOrder ==
  frame.op = "sendDeposit" =>
    /\ Len(calls) <= Len(FlowOrder)
    /\ \A i \in 1..Len(calls) :
         /\ calls[i].op = FlowOrder[i]
         /\ i < Len(calls) => calls[i].out = "ok"
         /\ calls[i].op = "getCode" =>
              calls[i].arg = WalletAddress(frame.ethAddress, frame.swthAddress)

C4_Witness ==
  /\ frame.op = "sendDeposit"
  /\ Len(calls) = 5
  /\ calls[5].op = "postDeposit"
  /\ calls[5].out = "ok"
  /\ result.tag = "response"

\* the number a string of decimal digits writes
RECURSIVE NumberOf(_)
NumberOf(digits) ==
  IF digits = <<>> THEN 0
  ELSE IF digits[1] = "-" THEN 0 - NumberOf(Tail(digits))
  ELSE 10 * NumberOf(SubSeq(digits, 1, Len(digits) - 1))
       + (CHOOSE v \in 0..9 : DigitChars[v + 1] = digits[Len(digits)])

\* the wallet was not deployed when probed and was deployed when the POST was issued
Raced ==
  /\ frame.op = "sendDeposit"
  /\ CallsOf(calls, "postDeposit") # {}
  /\ ~frame.walletContractDeployed
  /\ submitDeployed

\* C5 as stated: when the deposit address becomes a deployed contract after the
\* probe and before the submission, the FeeAmount submitted is lower than the fee a
\* quote taken at submission time gives (for a deployed address: the deposit fee).
C5_Original_UnderCharged ==
  Raced => \A i \in CallsOf(calls, "postDeposit") :
             NumberOf(calls[i].arg.FeeAmount) < frame.feeInfo.deposit

\* C5 amended: the probe and the submission are not atomic; when the deposit address
\* becomes a deployed contract between them, the FeeAmount submitted is the deposit
\* fee plus the wallet-creation fee, which is never lower than the deposit-only fee
\* a quote taken at submission time gives (the fee is over-charged, not under-charged).
C5_RaceOverCharges ==
  Raced => \A i \in CallsOf(calls, "postDeposit") :
             /\ NumberOf(calls[i].arg.FeeAmount) = frame.feeInfo.deposit + frame.feeInfo.createWallet
             /\ NumberOf(calls[i].arg.FeeAmount) >= frame.feeInfo.deposit

C5_Witness ==
  /\ Raced
  /\ \E i \in CallsOf(calls, "postDeposit") :
       NumberOf(calls[i].arg.FeeAmount) > frame.feeInfo.deposit

FeeOps == {"getDepositFeeAmount", "sendDeposit"}

\* C6 as stated: getDepositFeeAmount for a token of another chain, or for a denom
\* with no configured deposit fee, fails before any network call is issued.
C6_Original_NoNetworkCall ==
  (frame.op = "getDepositFeeAmount" /\ result = Thrown("unsupported token")) =>
    calls = <<>>

\* C6 amended: getDepositFeeAmount for a token of another chain, or for a denom with
\* no configured deposit fee, fails with "unsupported token" when the fee-service
\* answer arrives: the fee-service request is the one network call issued, and no
\* code-existence probe is made.
C6_UnsupportedAfterFeeFetch ==
  (frame.op \in FeeOps /\ AnsweredOk("getFeeInfo") # {}
     /\ (frame.token.blockchain # blockchain \/ frame.feeInfo.deposit = Absent)) =>
    /\ result = Thrown("unsupported token")
    /\ frame.pc = "done"
    /\ calls[Len(calls)].op = "getFeeInfo"
    /\ CallsOf(calls, "getCode") = {}

C6_Witness ==
  /\ frame.op = "getDepositFeeAmount"
  /\ frame.token.blockchain # blockchain
  /\ frame.feeInfo.deposit # Absent
  /\ result = Thrown("unsupported token")
  /\ Len(calls) = 1
  /\ calls[1].op = "getFeeInfo"

\* C7: for a token of the client's chain with a configured deposit fee,
\* getDepositFeeAmount returns the deposit fee alone when the deposit address holds
\* contract code and the deposit fee plus the wallet-creation fee when it does not;
\* a fee schedule without the wallet-creation component never makes the quote fail
\* for a deployed address.
C7_FeeQuote ==
  (frame.op = "getDepositFeeAmount" /\ AnsweredOk("getCode") # {}) =>
    /\ frame.token.blockchain = blockchain
    /\ frame.feeInfo.deposit # Absent
    /\ frame.walletContractDeployed =>
         /\ frame.depositAddress \in deployed
         /\ result = Returned("fee", frame.feeInfo.deposit)
    /\ (~frame.walletContractDeployed /\ frame.feeInfo.createWallet # Absent) =>
         result = Returned("fee", frame.feeInfo.deposit + frame.feeInfo.createWallet)
    /\ frame.depositAddress \notin deployed => ~frame.walletContractDeployed

C7_Witness ==
  /\ frame.op = "getDepositFeeAmount"
  /\ frame.walletContractDeployed
  /\ frame.feeInfo.createWallet = Absent
  /\ frame.feeInfo.deposit = 2
  /\ result = Returned("fee", 2)

\* the calls that were rejected
Rejected == { i \in 1..Len(calls) : calls[i].out \notin {"pending", "ok"} }

\* C8: if address derivation, the fee quote or the sign callback fails during
\* sendDeposit, the failure reaches the caller unchanged, no later step runs (no POST
\* to the payer) and no remote call is issued more than once per invocation.
C8_FailureStopsTheFlow ==
  frame.op = "sendDeposit" =>
    /\ \A op \in {FlowOrder[n] : n \in 1..Len(FlowOrder)} :
         Cardinality(CallsOf(calls, op)) <= 1
    /\ \A i \in Rejected :
         /\ i = Len(calls)
         /\ result = Thrown(calls[i].out)
         /\ frame.pc = "done"
         /\ calls[i].op # "postDeposit" => CallsOf(calls, "postDeposit") = {}
    /\ (result.kind = "throw" /\ Rejected = {}) =>
         /\ frame.pc = "done"
         /\ CallsOf(calls, "postDeposit") = {}

C8_Witness ==
  /\ frame.op = "sendDeposit"
  /\ Len(calls) = 4
  /\ calls[4].op = "sign"
  /\ calls[4].out = "ETIMEDOUT"
  /\ result = Thrown("ETIMEDOUT")

\* the greatest index of a non-empty set of indices
LastIndex(S) == CHOOSE i \in S : \A j \in S : j <= i

\* the indices of the entries of the last reloaded list that are (are not) pool tokens
PoolEntries == { i \in 1..Len(hist.tokenList) : isPoolToken(hist.tokenList[i].denom) }
TokenEntries == (1..Len(hist.tokenList)) \ PoolEntries

\* the keys the last reloaded list gives each table
ListTokenKeys == { hist.tokenList[i].denom : i \in TokenEntries }
ListPoolKeys == { hist.tokenList[i].denom : i \in PoolEntries }
ListSymbolKeys == { getCommonDenom(hist.tokenList[i].denom) : i \in TokenEntries }

C10_WrapperMapAdditive ==
  /\ hist.wrapperReloads >= 1 =>
       DOMAIN hist.wrapperBefore1 \subseteq DOMAIN wrapperMap
  /\ (hist.wrapperReloads = 2
        /\ DOMAIN hist.payload1 \cap DOMAIN hist.payload2 = {}) =>
       wrapperMap =
         [k \in DOMAIN hist.wrapperBefore2 \cup DOMAIN hist.payload1
                  \cup DOMAIN hist.payload2 |->
            IF k \in DOMAIN hist.payload1 THEN hist.payload1[k]
            ELSE IF k \in DOMAIN hist.payload2 THEN hist.payload2[k]
            ELSE hist.wrapperBefore2[k]]
  /\ (hist.wrapperReloads = 2 /\ hist.payload1 = hist.payload2) =>
       wrapperMap = hist.wrapperBefore1

C10_Witness ==
  /\ hist.wrapperReloads = 2
  /\ DOMAIN hist.wrapperBefore2 = {d_usdc}
  /\ DOMAIN hist.payload1 = {d_eth1}
  /\ DOMAIN hist.payload2 = {d_eth}
  /\ DOMAIN wrapperMap = {d_usdc, d_eth1, d_eth}

(***************************************************************************)
(* C11: over any sequence of reloadUSDValues calls, every stored price is  *)
(* strictly positive, a denom that had a price before a refresh still has  *)
(* one after it, and a refresh whose answer omits the denom's pricing id   *)
(* or quotes it at zero or below leaves the previous price in place.       *)
(***************************************************************************)
\* the answer quotes a positive price for denom, under the id requested for it
QuotedPositive(response, denom) == ReadPrice_SameId(response, denom) > 0

C11_PricesNeverLost ==
  /\ \A d \in DOMAIN usdValues : usdValues[d] > 0
  /\ \A d \in DOMAIN hist.usdBefore :
       /\ d \in DOMAIN usdValues
       /\ ~QuotedPositive(hist.usdResponse, d) => usdValues[d] = hist.usdBefore[d]

\* a refresh that asked for eth and was answered with a price of zero or below
\* found eth at 2 and left it there
C11_Witness ==
  /\ hist.usdReloaded
  /\ d_eth \in hist.usdDenoms
  /\ d_eth \in DOMAIN hist.usdBefore /\ hist.usdBefore[d_eth] = 2
  /\ id_ethereum \in DOMAIN hist.usdResponse /\ hist.usdResponse[id_ethereum] <= 0
  /\ usdValues[d_eth] = 2

(***************************************************************************)
(* C12: reloadUSDValues reads a price back under the id it requested it    *)
(* with: a common denom without a CoinGeckoTokenNames entry, requested and *)
(* quoted positive under its own denom, is stored with that price.         *)
(***************************************************************************)
C12_SameIdReadBack ==
  hist.usdReloaded =>
    \A d \in hist.usdDenoms :
      (d \notin DOMAIN CoinGeckoTokenNames /\ d \in hist.usdCoinIds
         /\ d \in DOMAIN hist.usdResponse /\ hist.usdResponse[d] > 0)
        => (d \in DOMAIN usdValues /\ usdValues[d] = hist.usdResponse[d])

\* the wrapped denoms of source, in the property order of the wrapper map
WrappersOf(source) ==
  SelectSeq(wrapperOrder, LAMBDA w : wrapperMap[w] = source)

\* the pairs of the wrapper map whose two denoms are in the catalog
CatalogRelations ==
  { w \in DOMAIN wrapperMap : w \in DOMAIN tokens /\ wrapperMap[w] \in DOMAIN tokens }

\* C13 as stated: for every pair wrapperMap[w] = s with both denoms in the catalog,
\* getSourceToken(w) has denom s and getWrappedToken(s) without a blockchain has
\* denom w.
C13_Original_RoundTrip ==
  \A w \in CatalogRelations :
    /\ { t.denom : t \in getSourceToken(w) } = {wrapperMap[w]}
    /\ { t.denom : t \in getWrappedToken(wrapperMap[w], {}) } = {w}

(***************************************************************************)
(* C13 amended: for every pair wrapperMap[w] = s with both denoms in the   *)
(* catalog, getSourceToken(w) is the token of s unless w is itself a value *)
(* of the map, and then it is the token of w; getWrappedToken(s) without a *)
(* blockchain is the token of s when s is itself a key of the map, and     *)
(* otherwise what the catalog holds for the first wrapper of s in the      *)
(* order of insertion: the token of w exactly when w is that first one.    *)
(***************************************************************************)
C13_RoundTripFirstWrapper ==
  \A w \in CatalogRelations :
    LET s == wrapperMap[w]
    IN /\ getSourceToken(w) = IF IsWrapperValue(w) THEN {tokens[w]} ELSE {tokens[s]}
       /\ getWrappedToken(s, {}) =
            IF s \in DOMAIN wrapperMap THEN {tokens[s]}
            ELSE TokenAt(Head(WrappersOf(s)))
       /\ (s \notin DOMAIN wrapperMap /\ Head(WrappersOf(s)) = w)
            => getWrappedToken(s, {}) = {tokens[w]}

\* eth has two wrappers in the catalog, eth1 inserted first: the round trip closes
\* for eth1 and not for usdc
C13_Witness ==
  /\ wrapperOrder = <<d_eth1, d_usdc>>
  /\ wrapperMap[d_eth1] = d_eth /\ wrapperMap[d_usdc] = d_eth
  /\ DOMAIN tokens = {d_eth, d_eth1, d_usdc}
  /\ getSourceToken(d_usdc) = {tokens[d_eth]}
  /\ getWrappedToken(d_eth, {}) = {tokens[d_eth1]}

\* the wrappers of source that the catalog holds, in the order of insertion
CatalogWrappersOf(source) ==
  SelectSeq(WrappersOf(source), LAMBDA w : w \in DOMAIN tokens)

Blockchains == {"eth", "bsc", "native"}

(***************************************************************************)
(* C14: for a denom that is a source and not itself a key of the wrapper   *)
(* map, getWrappedToken(denom, b) gives a token of blockchain b whenever a *)
(* wrapper of that source has a catalog entry on b, and none otherwise;    *)
(* without a blockchain it gives the token of the first wrapper that is    *)
(* found in the catalog, and none only if there is no such wrapper.        *)
(***************************************************************************)
C14_WrappedTokenLookup ==
  \A denom \in { wrapperMap[k] : k \in DOMAIN wrapperMap } \ DOMAIN wrapperMap :
    LET found == CatalogWrappersOf(denom)
    IN /\ \A b \in Blockchains :
            LET onChain == SelectSeq(found, LAMBDA w : tokens[w].blockchain = b)
            IN IF onChain # <<>>
               THEN /\ getWrappedToken(denom, {b}) # {}
                    /\ \A t \in getWrappedToken(denom, {b}) : t.blockchain = b
               ELSE getWrappedToken(denom, {b}) = {}
       /\ getWrappedToken(denom, {}) =
            IF found # <<>> THEN {tokens[Head(found)]} ELSE {}

(***************************************************************************)
(* C15: after any sequence of reloadTokens and reloadWrapperMap calls      *)
(* every key and every value of the wrapper map is a denom of the token    *)
(* catalog, no denom maps to itself, and following the map from a denom    *)
(* never comes back to it.                                                 *)
(***************************************************************************)
\* the denoms reached from denom in 1..n steps of the wrapper map
RECURSIVE ReachedFrom(_, _)
ReachedFrom(denom, n) ==
  IF n = 0 \/ denom \notin DOMAIN wrapperMap THEN {}
  ELSE {wrapperMap[denom]} \cup ReachedFrom(wrapperMap[denom], n - 1)

C15_WrapperMapWellFormed ==
  \A k \in DOMAIN wrapperMap :
    /\ k \in DOMAIN tokens \cup DOMAIN poolTokens
    /\ wrapperMap[k] \in DOMAIN tokens \cup DOMAIN poolTokens
    /\ wrapperMap[k] # k
    /\ k \notin ReachedFrom(k, Cardinality(DOMAIN wrapperMap))

\* the denoms the lookups are asked about
Denoms == {d_eth, d_eth1, d_usdc, d_pool}

\* C16 as stated: getSymbol(getCommonDenom(d)) = getSymbol(d) for every denom d,
\* in every state of the registry and for every content of the alias table.
C16_Original_AnyAliasTable ==
  \A d \in Denoms : getSymbol(getCommonDenom(d)) = getSymbol(d)

\* no target of an alias is itself the key of an alias to another denom
Idempotent(table) ==
  \A k \in DOMAIN table : table[k] \in DOMAIN table => table[table[k]] = table[k]

(***************************************************************************)
(* C16 amended: getSymbol(getCommonDenom(d)) = getSymbol(d) for every      *)
(* denom d and in every state of the registry, for every content of the    *)
(* alias table in which no alias target is the key of an alias to yet      *)
(* another denom; for a chained table the two differ.                      *)
(***************************************************************************)
C16_SymbolOfCommonDenom ==
  Idempotent(aliasTable) =>
    \A d \in Denoms : getSymbol(getCommonDenom(d)) = getSymbol(d)

\* eth1 is an alias of eth, eth is registered as WETH: both lookups give WETH
C16_Witness ==
  /\ aliasTable = CommonAssetName
  /\ d_eth \in DOMAIN symbols /\ symbols[d_eth] = s_WETH
  /\ getSymbol(d_eth1) = s_WETH
  /\ getSymbol(getCommonDenom(d_eth1)) = s_WETH
  /\ getSymbol(d_usdc) = s_USDC

\* the weights and the pool number the pool denoms asked about are made of
Weights == { <<"5">>, <<"2", "0">> }
PoolNumber == <<"7">>

\* the pool denom a-wA-b-wB-lpN
PoolDenom(a, wA, b, wB) ==
  a \o <<"-">> \o wA \o <<"-">> \o b \o <<"-">> \o wB \o <<"-", "l", "p">> \o PoolNumber

\* C17 as stated: for non-pool denoms a and b registered with the names NameA and
\* NameB, getTokenName of a-wA-b-wB-lpN is "NameA-NameB" and getTokenDesc of it is
\* "wA% NameA / wB% NameB".
C17_Original_FullNames ==
  \A a, b \in DOMAIN tokens : \A wA, wB \in Weights :
    /\ getTokenName(PoolDenom(a, wA, b, wB)) =
         tokens[a].name \o <<"-">> \o tokens[b].name
    /\ getTokenDesc(PoolDenom(a, wA, b, wB)) =
         wA \o <<"%", " ">> \o tokens[a].name \o <<" ", "/", " ">>
            \o wB \o <<"%", " ">> \o tokens[b].name

\* what getTokenName gives for a registered denom: the symbol registered last under
\* its common denom, replaced by its SYMBOL_OVERRIDE entry if it has one
DisplaySymbol(denom) ==
  LET symbol == symbols[getCommonDenom(denom)]
  IN IF symbol \in DOMAIN SYMBOL_OVERRIDE THEN SYMBOL_OVERRIDE[symbol] ELSE symbol

(***************************************************************************)
(* C17 amended: for non-pool denoms a and b of the catalog, getTokenName   *)
(* of a-wA-b-wB-lpN is "SymA-SymB" and getTokenDesc of it is               *)
(* "wA% SymA / wB% SymB", where SymX is getTokenName(x): the symbol (not   *)
(* the name) registered under x's common denom, after SYMBOL_OVERRIDE.     *)
(***************************************************************************)
C17_PoolNameFromSymbols ==
  \A a, b \in DOMAIN tokens : \A wA, wB \in Weights :
    /\ getTokenName(a) = DisplaySymbol(a)
    /\ getTokenName(PoolDenom(a, wA, b, wB)) =
         DisplaySymbol(a) \o <<"-">> \o DisplaySymbol(b)
    /\ getTokenDesc(PoolDenom(a, wA, b, wB)) =
         wA \o <<"%", " ">> \o DisplaySymbol(a) \o <<" ", "/", " ">>
            \o wB \o <<"%", " ">> \o DisplaySymbol(b)

\* eth is registered as "Ether" with symbol WETH, usdc as "Coin" with symbol SWTHB
C17_Witness ==
  /\ aliasTable = CommonAssetName
  /\ d_eth \in DOMAIN tokens /\ tokens[d_eth].name = n_Ether
  /\ d_usdc \in DOMAIN tokens /\ tokens[d_usdc].name = n_Coin
  /\ symbols[d_eth] = s_WETH /\ symbols[d_usdc] = s_SWTHB
  /\ getTokenName(PoolDenom(d_eth, <<"5">>, d_usdc, <<"2", "0">>)) =
       <<"W", "E", "T", "H", "-", "S", "W", "T", "H">>
  /\ getTokenDesc(PoolDenom(d_eth, <<"5">>, d_usdc, <<"2", "0">>)) =
       <<"5", "%", " ", "W", "E", "T", "H", " ", "/", " ",
         "2", "0", "%", " ", "S", "W", "T", "H">>

\* the three token tables, as one value
Tables == [tokens |-> tokens, poolTokens |-> poolTokens, symbols |-> symbols]

\* the tables that hold every entry of `list` (the last entry of a key wins) and,
\* unchanged, every entry of `before` under a key the list does not give
MergedTables(before, list) ==
  LET pool == { i \in 1..Len(list) : isPoolToken(list[i].denom) }
      plain == (1..Len(list)) \ pool
      Last(S) == list[LastIndex(S)]
  IN [tokens |->
        [d \in DOMAIN before.tokens \cup { list[i].denom : i \in plain } |->
           LET S == { i \in plain : list[i].denom = d }
           IN IF S # {} THEN Last(S) ELSE before.tokens[d]],
      poolTokens |->
        [d \in DOMAIN before.poolTokens \cup { list[i].denom : i \in pool } |->
           LET S == { i \in pool : list[i].denom = d }
           IN IF S # {} THEN Last(S) ELSE before.poolTokens[d]],
      symbols |->
        [c \in DOMAIN before.symbols \cup { getCommonDenom(list[i].denom) : i \in plain } |->
           LET S == { i \in plain : getCommonDenom(list[i].denom) = c }
           IN IF S # {} THEN Last(S).symbol ELSE before.symbols[c]]]

(***************************************************************************)
(* C18: in every interleaving of reloads (and of the lookups, which read   *)
(* the tables between two steps) a fetched payload is applied in one step: *)
(* a step that changes the token tables takes them to the tables with the  *)
(* whole fetched list merged in, a step that changes the wrapper map takes *)
(* it to the map with the whole fetched result merged in, and in every     *)
(* state each denom of tokens has a symbol under its common denom.         *)
(***************************************************************************)
C18_PayloadsApplyWhole ==
  /\ [](\A d \in DOMAIN tokens : getCommonDenom(d) \in DOMAIN symbols)
  /\ [][/\ Tables' # Tables =>
             /\ Tables' = MergedTables(Tables, hist'.tokenList)
             /\ wrapperMap' = wrapperMap
        /\ wrapperMap' # wrapperMap =>
             /\ wrapperMap' =
                  [k \in DOMAIN wrapperMap \cup DOMAIN hist'.payload2 |->
                     IF k \in DOMAIN hist'.payload2 THEN hist'.payload2[k]
                     ELSE wrapperMap[k]]
             /\ Tables' = Tables]_vars

\* a list of two tokens has been merged in while a reloadWrapperMap call is waiting
\* for its answer, after an earlier one was applied
C18_Witness ==
  /\ reg.reloadWrapperMap = "awaitGetCoinMapping"
  /\ hist.tokensReloaded
  /\ Len(hist.tokenList) = 2
  /\ hist.tokenList[1].denom # hist.tokenList[2].denom
  /\ Tables = MergedTables(hist.tablesBefore, hist.tokenList)
  /\ hist.tablesBefore.tokens # <<>>
  /\ wrapperMap # <<>>

\* every table of the registry, as one value
AllTables ==
  [tokens |-> tokens, poolTokens |-> poolTokens, symbols |-> symbols,
   wrapperMap |-> wrapperMap, usdValues |-> usdValues]

\* no reload call is waiting for an answer
NoReloadInFlight ==
  /\ reg.reloadTokens = "idle"
  /\ reg.reloadWrapperMap = "idle"
  /\ reg.reloadUSDValues = "idle"

(***************************************************************************)
(* C19: the step in which the fetch of a reload fails hands the error to   *)
(* the caller and leaves tokens, poolTokens, symbols, wrapperMap and       *)
(* usdValues exactly as they were; inside initialize the failed reload is  *)
(* the last one started: initialize rejects with the same error and no     *)
(* later reload is started by it.                                          *)
(***************************************************************************)
C19_FailureLeavesTablesAndStops ==
  /\ [][(reg.thrown = "" /\ reg'.thrown # "") =>
          /\ AllTables' = AllTables
          /\ reg'.initializeThrown = reg'.thrown
          /\ reg'.initialize = "idle"
          /\ reg'.started = reg.started
          /\ NoReloadInFlight']_vars
  /\ [](reg.initializeThrown # "" =>
          /\ reg.thrown = reg.initializeThrown
          /\ reg.initialize = "idle"
          /\ NoReloadInFlight
          /\ \E n \in 1..3 : reg.started = SubSeq(InitializeSteps, 1, n))

\* initialize loaded the tokens, its reloadWrapperMap failed, and reloadUSDValues
\* was not started: the wrapper map and the prices are as they were
C19_Witness ==
  /\ reg.initializeThrown = "ETIMEDOUT"
  /\ reg.started = <<"reloadTokens", "reloadWrapperMap">>
  /\ reg.initializeCalls = 1
  /\ hist.tokensReloaded /\ tokens # <<>>
  /\ wrapperMap = <<>>
  /\ ~hist.usdReloaded
  /\ NoReloadInFlight

\* the approve transactions the running approveERC20 call has submitted
ApproveCalls == CallsOf(calls, "approve")

\* the running approveERC20 call has submitted its transaction
ApproveSubmitted == frame.op = "approveERC20" /\ Len(calls) = 2

\* what C20 says of the transaction but for its spender: nothing is submitted
\* before the owner's transaction count is read; what is submitted then is one
\* approve on the token contract, for the maximal amount, with the count just read
\* as its nonce; and nothing is submitted after it
ApproveOnceWithFreshNonce ==
  frame.op = "approveERC20" =>
    /\ Cardinality(ApproveCalls) <= 1
    /\ frame.pc = "awaitTransactionCount" => ApproveCalls = {}
    /\ (frame.pc = "awaitApprove" \/ result.kind = "return") => ApproveSubmitted
    /\ ApproveSubmitted =>
         /\ calls[1] = [op |-> "getTransactionCount", arg |-> frame.ethAddress,
                        out |-> "ok"]
         /\ calls[2].op = "approve"
         /\ calls[2].arg.contract = frame.token.asset_id
         /\ calls[2].arg.amount = MaxUint256
         /\ calls[2].arg.nonce = frame.nonce
         /\ calls[2].arg.gasLimit = frame.gasLimit

\* C20 as stated: approveERC20 submits exactly one approve transaction whose spender
\* is the lock proxy configured for the client's chain, whose amount is the maximal
\* one and whose nonce is the owner's transaction count read just before.
C20_Original_ConfiguredSpender ==
  /\ ApproveOnceWithFreshNonce
  /\ ApproveSubmitted =>
       toLowerCase(calls[2].arg.spender) = stripHexPrefix(toLowerCase(getLockProxyAddress))

(***************************************************************************)
(* C20 amended: approveERC20 submits exactly one approve transaction, for  *)
(* the maximal amount and with the owner's transaction count read just     *)
(* before as its nonce; its spender is the lock_proxy_hash of the token    *)
(* passed in, whatever lock proxy is configured for the client's chain.    *)
(***************************************************************************)
C20_ApproveTokensLockProxy ==
  /\ ApproveOnceWithFreshNonce
  /\ ApproveSubmitted => calls[2].arg.spender = frame.token.lock_proxy_hash

\* an approval returned for a token whose lock proxy is not the configured one
C20_Witness ==
  /\ frame.op = "approveERC20" /\ frame.pc = "done"
  /\ result = Returned("tx", 1)
  /\ frame.token.lock_proxy_hash = <<"0", "1", "d">>
  /\ blockchain = "eth"
  /\ calls[2].arg.spender = <<"0", "1", "d">>
  /\ calls[2].arg.nonce = 1
  /\ calls[2].out = "ok"

\* a getExternalBalances call has returned its tokens
BalancesReturned == frame.op = "getExternalBalances" /\ result.kind = "return"

\* a hash or an address without its case and without its prefix
Normalized(hex) == stripHexPrefix(toLowerCase(hex))

\* the whitelist, when one is given, names the token's denom
Whitelisted(token) ==
  frame.whitelistDenoms.given => token.denom \in frame.whitelistDenoms.denoms

\* the call made one batched read, for the owner's address and the asset ids of
\* the tokens `kept`, and returned `kept` with the i-th token given the i-th balance
ReturnedWithOwnBalances(kept) ==
  /\ Cardinality(CallsOf(calls, "getBalances")) = 1
  /\ calls[2].op = "getBalances"
  /\ calls[2].arg.address = frame.ethAddress
  /\ calls[2].arg.assetIds = [i \in 1..Len(kept) |-> "0x" \o kept[i].asset_id]
  /\ Len(frame.tokens) = Len(kept)
  /\ Len(calls[2].out) = Len(kept)
  /\ \A i \in 1..Len(kept) :
       frame.tokens[i] = [kept[i] EXCEPT !.external_balance = toString(calls[2].out[i])]

\* C21 as stated: getExternalBalances returns exactly the directory's tokens of the
\* client's chain whose lock_proxy_hash is the configured lock proxy, case and a
\* prefix on either side ignored, and whose denom is whitelisted when a whitelist is
\* given, nothing else excluding a token, each with the balance at its own index.
C21_Original_NoOtherCondition ==
  BalancesReturned =>
    ReturnedWithOwnBalances(
      SelectSeq(frame.tokenList,
                LAMBDA t : /\ t.blockchain = blockchain
                           /\ Normalized(t.lock_proxy_hash) = Normalized(getLockProxyAddress)
                           /\ Whitelisted(t)))

(***************************************************************************)
(* C21 amended: getExternalBalances returns exactly the directory's tokens *)
(* of the client's chain whose asset id is 40 characters long, whose       *)
(* lock_proxy_hash in lower case is the configured lock-proxy address in   *)
(* lower case without its hex prefix (a prefix on the token's hash is not  *)
(* dropped), and whose denom is whitelisted when a whitelist is given; each *)
(* is returned with the balance at its own index of the one batched read.  *)
(***************************************************************************)
C21_ReturnsExternalTokens ==
  BalancesReturned =>
    ReturnedWithOwnBalances(
      SelectSeq(frame.tokenList,
                LAMBDA t : /\ t.blockchain = blockchain
                           /\ Len(t.asset_id) = 40
                           /\ toLowerCase(t.lock_proxy_hash) = Normalized(getLockProxyAddress)
                           /\ Whitelisted(t)))

\* two tokens returned, the hash of the first in upper case, each with its balance
C21_Witness ==
  /\ BalancesReturned
  /\ blockchain = "eth"
  /\ ~frame.whitelistDenoms.given
  /\ frame.tokenList = <<DirectoryToken(d_usdc, Erc20AssetId, "eth", <<"E", "1", "A">>),
                         DirectoryToken(d_eth, ZeroAssetId, "eth", <<"e", "1", "a">>)>>
  /\ calls[2].out = <<7, 12>>
  /\ Len(frame.tokens) = 2
  /\ frame.tokens[1].denom = d_usdc /\ frame.tokens[1].external_balance = <<"7">>
  /\ frame.tokens[2].denom = d_eth /\ frame.tokens[2].external_balance = <<"1", "2">>

(***************************************************************************)
(* C22: whatever reloadTokens calls were made, tokens and poolTokens       *)
(* partition the loaded entries by the pool-token pattern: every key of    *)
(* poolTokens matches the pattern, no key of tokens matches it, no denom   *)
(* is a key of both, each entry is stored under its own denom, and symbols *)
(* has an entry only under the canonical denom of some non-pool token.     *)
(***************************************************************************)
C22_TablesPartition ==
  /\ \A d \in DOMAIN poolTokens : isPoolToken(d)
  /\ \A d \in DOMAIN tokens : ~isPoolToken(d)
  /\ DOMAIN tokens \cap DOMAIN poolTokens = {}
  /\ \A d \in DOMAIN tokens : tokens[d].denom = d
  /\ \A d \in DOMAIN poolTokens : poolTokens[d].denom = d
  /\ \A c \in DOMAIN symbols :
       \E d \in DOMAIN tokens : ~isPoolToken(d) /\ getCommonDenom(d) = c

\* reloads have loaded a pool token, a token under its canonical denom and a
\* token under an alias, whose symbol is stored under the canonical denom only
C22_Witness ==
  /\ hist.tokensReloaded
  /\ reg.reloadTokens = "idle"
  /\ DOMAIN poolTokens = {d_pool}
  /\ DOMAIN tokens = {d_eth1, d_usdc}
  /\ DOMAIN symbols = {d_eth, d_usdc}
  /\ symbols[d_eth] = tokens[d_eth1].symbol

\* C23 as stated: getDecimals canonicalises like the other lookups: in every state
\* reloadTokens leaves, getDecimals(d) = getDecimals(getCommonDenom(d)) for every
\* denom d, so an alias and its canonical denom resolve to the same decimals.
C23_Original_DecimalsOfCommonDenom ==
  \A d \in Denoms : getDecimals(d) = getDecimals(getCommonDenom(d))

\* the tokens reloadTokens calls have stored under denom d, in either table
StoredUnder(d) ==
  { tokens[k] : k \in DOMAIN tokens \cap {d} } \cup
  { poolTokens[k] : k \in DOMAIN poolTokens \cap {d} }

(***************************************************************************)
(* C23 amended: getDecimals does not canonicalise: in every state          *)
(* reloadTokens leaves, getDecimals(d) is the decimals of the token stored *)
(* under d itself and is undefined when no token is stored under d,        *)
(* whatever is stored under getCommonDenom(d); so getDecimals(d) and       *)
(* getDecimals(getCommonDenom(d)) agree only when the two denoms are the   *)
(* same, are both absent, or are both stored with the same decimals.       *)
(***************************************************************************)
C23_DecimalsOfOwnDenom ==
  \A d \in Denoms :
    /\ getDecimals(d) = { t.decimals : t \in StoredUnder(d) }
    /\ (getDecimals(d) = getDecimals(getCommonDenom(d))) <=>
         \/ getCommonDenom(d) = d
         \/ StoredUnder(d) = {} /\ StoredUnder(getCommonDenom(d)) = {}
         \/ \E t \in StoredUnder(d), c \in StoredUnder(getCommonDenom(d)) :
              t.decimals = c.decimals

\* the alias eth1 and its canonical denom eth are both loaded, with other decimals
C23_Witness ==
  /\ hist.tokensReloaded
  /\ getCommonDenom(d_eth1) = d_eth
  /\ d_eth1 \in DOMAIN tokens /\ d_eth \in DOMAIN tokens
  /\ getDecimals(d_eth1) = {18}
  /\ getDecimals(d_eth) = {8}

\* the values hashed into the message of the i-th call, a call of the sign callback
SignedValues(i) == calls[i].arg[2]

(***************************************************************************)
(* C24: every authorization sendDeposit POSTs to the relayer is consistent *)
(* with what was signed: one message was handed to the sign callback       *)
(* before, and the AssetHash, TargetProxyHash, ToAssetHash, FeeAddress,    *)
(* Amount, FeeAmount and Nonce of the body are the values hashed into it;  *)
(* Amount is the token's full annotated external balance, FeeAmount is the *)
(* fee quoted in the same invocation, and Amount >= 2 x FeeAmount.         *)
(***************************************************************************)
C24_BodyIsWhatWasSigned ==
  frame.op = "sendDeposit" =>
    \A i \in CallsOf(calls, "postDeposit") :
      /\ Cardinality(CallsOf(calls, "sign")) = 1
      /\ \A j \in CallsOf(calls, "sign") :
           LET body == calls[i].arg
               signed == SignedValues(j)
               quoted == IF frame.walletContractDeployed
                         THEN frame.feeInfo.deposit
                         ELSE frame.feeInfo.deposit + frame.feeInfo.createWallet
           IN /\ j < i
              /\ calls[j].arg[1] = "keccak256"
              /\ Len(signed) = 8
              /\ signed[1] = "sendTokens"
              /\ body.AssetHash = signed[2]
              /\ body.TargetProxyHash = signed[3]
              /\ body.ToAssetHash = signed[4]
              /\ body.FeeAddress = signed[5]
              /\ NumberOf(body.Amount) = signed[6]
              /\ NumberOf(body.FeeAmount) = signed[7]
              /\ NumberOf(body.Nonce) = signed[8]
              /\ signed[6] = frame.token.external_balance
              /\ signed[7] = quoted
              /\ signed[6] >= 2 * signed[7]

\* a deposit of the whole balance 4 with the fee 2 and the nonce 1 was signed, POSTed
\* and answered
C24_Witness ==
  /\ frame.op = "sendDeposit" /\ frame.pc = "done"
  /\ result.tag = "response"
  /\ Len(calls) = 5
  /\ calls[4].op = "sign" /\ calls[5].op = "postDeposit"
  /\ frame.token.external_balance = 4
  /\ SignedValues(4)[6] = 4 /\ SignedValues(4)[7] = 2 /\ SignedValues(4)[8] = 1
  /\ calls[5].arg.Amount = <<"4">>
  /\ calls[5].arg.FeeAmount = <<"2">>
  /\ calls[5].arg.Nonce = <<"1">>

\* the steps a log names, and the steps initialize makes for its argument
StepsOf(log) == [i \in 1..Len(log) |-> log[i].op]
ExpectedSteps(wallet) == IF wallet = {} THEN SubSeq(SdkSteps, 1, 3) ELSE SdkSteps

\* every step of the log has resolved
AllResolved(log) == \A i \in 1..Len(log) : log[i].out = "ok"

\* the step awaited by the running call is rejected in this step
StepRejected ==
  /\ sdk.call.log # <<>>
  /\ sdk.call.log[Len(sdk.call.log)].out = "pending"
  /\ Len(sdk.call.log') = Len(sdk.call.log)
  /\ sdk.call.log'[Len(sdk.call.log)].out \in TransportErrors

(***************************************************************************)
(* C25: the SDK's initialized flag becomes true only after reloadTxnFees,  *)
(* the websocket connect, the token registry's initialize and, when a      *)
(* wallet is given, the wallet's init have all resolved, in that order;    *)
(* each step starts only when those before it have resolved; and when a    *)
(* step rejects, the call ends with that error, the flag is left as it was *)
(* (false on an SDK that no call has initialized) and no later step starts. *)
(***************************************************************************)
C25_InitializedAfterAllSteps ==
  /\ [](sdk.initialized =>
          /\ AllResolved(sdk.initializedBy)
          /\ \E n \in {3, 4} : StepsOf(sdk.initializedBy) = SubSeq(SdkSteps, 1, n))
  /\ [][(sdk.initialized' /\ ~sdk.initialized) =>
          /\ AllResolved(sdk.call.log')
          /\ StepsOf(sdk.call.log') = ExpectedSteps(sdk.call.arg)
          /\ \A i \in 1..Len(sdk.call.log') :
               sdk.call.log'[i].op = "wallet.init" => sdk.call.log'[i].arg = sdk.call.arg]_vars
  /\ [](LET log == sdk.call.log
        IN /\ \E n \in 0..Len(ExpectedSteps(sdk.call.arg)) :
                StepsOf(log) = SubSeq(ExpectedSteps(sdk.call.arg), 1, n)
           /\ \A i \in 1..(Len(log) - 1) : log[i].out = "ok"
           /\ \A i \in 1..Len(log) :
                log[i].out \in TransportErrors =>
                  sdk.call.pc = "done" /\ sdk.call.thrown = log[i].out)
  /\ [][StepRejected =>
          /\ sdk.initialized' = sdk.initialized
          /\ sdk.call.pc' = "done"
          /\ sdk.call.thrown' \in TransportErrors
          /\ reg' = reg]_vars

\* initialize(wallet) has run its four steps and set the flag
C25_Witness ==
  /\ sdk.call.op = "initialize" /\ sdk.call.pc = "done"
  /\ sdk.call.arg = {"wallet1"}
  /\ sdk.initialized
  /\ StepsOf(sdk.call.log) = SdkSteps
  /\ AllResolved(sdk.call.log)
  /\ sdk.txFees # {}
  /\ tokens # <<>>

\* the tables of a TokenClient nothing was loaded into
EmptyRegistry ==
  [tokens |-> <<>>, poolTokens |-> <<>>, symbols |-> <<>>, wrapperMap |-> <<>>,
   usdValues |-> <<>>]

\* a connect call has returned (has rejected)
ConnectReturned ==
  sdk.call.op = "connect" /\ sdk.call.pc = "done" /\ sdk.call.thrown = ""
ConnectRejected ==
  sdk.call.op = "connect" /\ sdk.call.pc = "done" /\ sdk.call.thrown # ""

====
